---- MODULE Spec2Model ----
(***************************************************************************)
(* Model of the documentation pipeline of context-generator-mcp:           *)
(* LlmsTxtFormatterService (hierarchy builder, section conversion, text    *)
(* rendering), ContentExtractorService (title cascade, validity check),    *)
(* PlatformDetectorService, DocumentationCrawlerService (page limits) and  *)
(* the scrape_documentation handler that drives them.                      *)
(* Strings are TLA+ strings; a character is a string of length one.        *)
(***************************************************************************)
EXTENDS Integers, Sequences, FiniteSets, TLC

(***************************************************************************)
(* Bounds of the model                                                     *)
(***************************************************************************)
MaxDocs == 3

MaxFormatDocs == 2

MaxRuns == 2

MaxClock == 2

MaxElements == 2

MaxCrawled == 2

MaxLinks == 2

(***************************************************************************)
(* JavaScript string primitives                                            *)
(***************************************************************************)
Min(a, b) == IF a <= b THEN a ELSE b

Max(a, b) == IF a >= b THEN a ELSE b

Char(s, i) == SubSeq(s, i, i)

\* characters matched by the regular expression class \s
IsWs(c) == c \in {" ", "\t", "\n", "\r"}

StartsWith(s, p) == Len(p) <= Len(s) /\ SubSeq(s, 1, Len(p)) = p

EndsWith(s, p) == Len(p) <= Len(s) /\ SubSeq(s, Len(s) - Len(p) + 1, Len(s)) = p

Includes(s, p) == \E i \in 1..(Len(s) - Len(p) + 1) : SubSeq(s, i, i + Len(p) - 1) = p

\* String.prototype.substring(start, end): both clamped to 0..length, swapped
\* when start > end; positions are 0-based, end exclusive
Substring(s, start, end) ==
  LET a == Max(0, Min(start, Len(s)))
      b == Max(0, Min(end, Len(s)))
  IN SubSeq(s, Min(a, b) + 1, Max(a, b))

\* String.prototype.lastIndexOf(c): 0-based index of the last occurrence, -1 if none
LastIndexOf(s, c) ==
  IF \E i \in 1..Len(s) : Char(s, i) = c
  THEN (CHOOSE i \in 1..Len(s) : Char(s, i) = c /\ \A j \in (i+1)..Len(s) : Char(s, j) # c) - 1
  ELSE -1

\* String.prototype.indexOf(p, from): 0-based index of the first occurrence of p
\* at or after position from, -1 if none
IndexOfFrom(s, p, from) ==
  LET hits == {i \in from..(Len(s) - Len(p)) : SubSeq(s, i + 1, i + Len(p)) = p}
  IN IF hits = {} THEN -1 ELSE CHOOSE i \in hits : \A j \in hits : i <= j

\* the characters of a string, as a sequence
RECURSIVE Chars(_)
Chars(s) == IF s = "" THEN <<>> ELSE <<Char(s, 1)>> \o Chars(SubSeq(s, 2, Len(s)))

UpperLetters == Chars("ABCDEFGHIJKLMNOPQRSTUVWXYZ")

LowerLetters == Chars("abcdefghijklmnopqrstuvwxyz")

LowerChar(c) ==
  IF \E i \in 1..26 : UpperLetters[i] = c
  THEN LowerLetters[CHOOSE i \in 1..26 : UpperLetters[i] = c]
  ELSE c

UpperChar(c) ==
  IF \E i \in 1..26 : LowerLetters[i] = c
  THEN UpperLetters[CHOOSE i \in 1..26 : LowerLetters[i] = c]
  ELSE c

RECURSIVE ToLowerCase(_)
ToLowerCase(s) ==
  IF Len(s) <= 1 THEN LowerChar(s)
  ELSE ToLowerCase(SubSeq(s, 1, Len(s) \div 2)) \o ToLowerCase(SubSeq(s, Len(s) \div 2 + 1, Len(s)))

RECURSIVE TrimStart(_)
TrimStart(s) == IF s # "" /\ IsWs(Char(s, 1)) THEN TrimStart(SubSeq(s, 2, Len(s))) ELSE s

RECURSIVE TrimEnd(_)
TrimEnd(s) == IF s # "" /\ IsWs(Char(s, Len(s))) THEN TrimEnd(SubSeq(s, 1, Len(s) - 1)) ELSE s

Trim(s) == TrimEnd(TrimStart(s))

\* two strings in which whitespace is already collapsed, put together so that
\* whitespace stays collapsed
JoinCollapsed(a, b) ==
  IF a # "" /\ b # "" /\ Char(a, Len(a)) = " " /\ Char(b, 1) = " "
  THEN a \o SubSeq(b, 2, Len(b))
  ELSE a \o b

\* s.replace(/\s+/g, ' '), computed on the two halves of s
RECURSIVE CollapseWhitespace(_)
CollapseWhitespace(s) ==
  IF Len(s) <= 1 THEN (IF IsWs(s) THEN " " ELSE s)
  ELSE JoinCollapsed(CollapseWhitespace(SubSeq(s, 1, Len(s) \div 2)),
                     CollapseWhitespace(SubSeq(s, Len(s) \div 2 + 1, Len(s))))

\* s.split(sep) for a one-character separator
RECURSIVE Split(_, _)
Split(s, sep) ==
  LET i == IndexOfFrom(s, sep, 0)
  IN IF i = -1 THEN <<s>>
     ELSE <<SubSeq(s, 1, i)>> \o Split(SubSeq(s, i + 2, Len(s)), sep)

RECURSIVE Join(_, _)
Join(parts, sep) ==
  IF Len(parts) = 0 THEN ""
  ELSE IF Len(parts) = 1 THEN parts[1]
  ELSE parts[1] \o sep \o Join(Tail(parts), sep)

RECURSIVE Repeat(_, _)
Repeat(s, n) ==
  IF n <= 0 THEN ""
  ELSE LET half == Repeat(s, n \div 2)
       IN IF n % 2 = 0 THEN half \o half ELSE half \o half \o s

\* Array.prototype.sort with a comparator that is a strict weak order: the
\* sort is stable, so an element's rank is the number of elements that compare
\* lower, plus the equal ones that precede it
StableSort(seq, Cmp(_, _)) ==
  LET n == Len(seq)
      rank(i) == Cardinality({j \in 1..n : Cmp(seq[j], seq[i]) < 0
                                          \/ (Cmp(seq[j], seq[i]) = 0 /\ j < i)}) + 1
      ranked == {<<rank(i), i>> : i \in 1..n}
  IN [k \in 1..n |-> seq[(CHOOSE p \in ranked : p[1] = k)[2]]]

(***************************************************************************)
(* new URL(url): the WHATWG parser restricted to the URLs of the model,    *)
(* "https://" host [path] ["?" query]; anything else throws                *)
(***************************************************************************)
Scheme == "https://"

\* the part of s before position i (0-based), all of s when i is -1
Before(s, i) == IF i = -1 THEN s ELSE SubSeq(s, 1, i)

\* host and path of an URL without its scheme and query; p is where its path starts
HostAndPath(noQuery, p) ==
  [ok |-> TRUE,
   hostname |-> Before(noQuery, p),
   pathname |-> IF p = -1 THEN "/" ELSE SubSeq(noQuery, p + 1, Len(noQuery))]

ParseAfterScheme(rest) ==
  HostAndPath(Before(rest, IndexOfFrom(rest, "?", 0)),
              IndexOfFrom(Before(rest, IndexOfFrom(rest, "?", 0)), "/", 0))

ParseURL(url) ==
  IF ~StartsWith(url, Scheme) \/ Len(url) = Len(Scheme)
  THEN [ok |-> FALSE, hostname |-> "", pathname |-> ""]
  ELSE ParseAfterScheme(SubSeq(url, Len(Scheme) + 1, Len(url)))

(***************************************************************************)
(* Hierarchy builder                                                       *)
(***************************************************************************)
NonEmptySegments(pathname) == SelectSeq(Split(pathname, "/"), LAMBDA s : Len(s) > 0)

SomeSegmentIn(segs, words) == \E i \in 1..Len(segs) : ToLowerCase(segs[i]) \in words

\* faulty variant: index.html is counted as a segment
LevelSegmentsWithIndexHtml(pathname) == NonEmptySegments(pathname)

\* pathname.split('/').filter(segment => segment.length > 0 && segment !== 'index.html')
LevelSegments(pathname) ==
  SelectSeq(Split(pathname, "/"), LAMBDA s : Len(s) > 0 /\ s # "index.html")

\* faulty variant: the getting-started rule is missing
LevelOfSegmentsNoGettingStarted(pathSegments) ==
  IF Len(pathSegments) <= 1
     \/ SomeSegmentIn(pathSegments, {"index", "home", "introduction", "overview"})
  THEN 1
  ELSE IF SomeSegmentIn(pathSegments, {"api", "reference", "methods"})
       THEN Min(Len(pathSegments), 4)
  ELSE Min(Len(pathSegments), 3)

\* the rules of determineDocumentLevel on the segments of a parsed URL
LevelOfSegments(pathSegments) ==
  IF Len(pathSegments) <= 1
     \/ SomeSegmentIn(pathSegments, {"index", "home", "introduction", "overview"})
  THEN 1
  ELSE IF SomeSegmentIn(pathSegments, {"getting-started", "quickstart", "setup", "installation"})
       THEN 1
  ELSE IF SomeSegmentIn(pathSegments, {"api", "reference", "methods"})
       THEN Min(Len(pathSegments), 4)
  ELSE Min(Len(pathSegments), 3)

\* 2 is the level of an URL that new URL rejects
LevelOfParsed(urlObj) == IF ~urlObj.ok THEN 2 ELSE LevelOfSegments(LevelSegments(urlObj.pathname))

determineDocumentLevel(url) == LevelOfParsed(ParseURL(url))

\* path.replace(/\/$/, '')
StripTrailingSlash(path) == IF EndsWith(path, "/") THEN SubSeq(path, 1, Len(path) - 1) ELSE path

\* the test of isLikelyParent on the two normalized paths
ChildStartsWithParent(normalizeParent, normalizeChild) ==
  StartsWith(normalizeChild, normalizeParent \o "/") \/ StartsWith(normalizeChild, normalizeParent)

IsLikelyParentParsed(p, c) ==
  IF ~p.ok \/ ~c.ok THEN FALSE
  ELSE ChildStartsWithParent(StripTrailingSlash(p.pathname), StripTrailingSlash(c.pathname))

isLikelyParent(parentUrl, childUrl) == IsLikelyParentParsed(ParseURL(parentUrl), ParseURL(childUrl))

RECURSIVE CommonPrefixLen(_, _)
CommonPrefixLen(a, b) ==
  IF Len(a) = 0 \/ Len(b) = 0 \/ a[1] # b[1] THEN 0
  ELSE 1 + CommonPrefixLen(Tail(a), Tail(b))

\* the score commonSegments / max(len1, len2, 1) as the fraction <<num, den>>
SimilarityOfPaths(path1, path2) ==
  <<CommonPrefixLen(path1, path2), Max(Max(Len(path1), Len(path2)), 1)>>

SimilarityOfParsed(u1, u2) ==
  IF ~u1.ok \/ ~u2.ok THEN <<0, 1>>
  ELSE SimilarityOfPaths(NonEmptySegments(u1.pathname), NonEmptySegments(u2.pathname))

calculateUrlSimilarity(url1, url2) == SimilarityOfParsed(ParseURL(url1), ParseURL(url2))

Abs(x) == IF x < 0 THEN -x ELSE x

\* sign of (sb - sa) for two fractions: negative when sa is the larger score
SimilarityDiff(sa, sb) == sb[1] * sa[2] - sa[1] * sb[2]

\* faulty variant: a node of the same level is accepted as a parent
IsCandidateSameLevel(node, docNode) ==
  /\ node.level <= docNode.level
  /\ node.url # docNode.url
  /\ isLikelyParent(node.url, docNode.url)

\* the candidate filter of findBestParent
IsCandidate(node, docNode) ==
  /\ node.level < docNode.level
  /\ node.url # docNode.url
  /\ isLikelyParent(node.url, docNode.url)

\* what the comparator of findBestParent reads of a candidate
ParentKey(node, docNode) ==
  [distance |-> Abs(node.level - (docNode.level - 1)),
   similarity |-> calculateUrlSimilarity(node.url, docNode.url)]

\* faulty variant: the candidate farthest from level - 1 is put first
CompareCandidatesFarthestFirst(a, b) ==
  LET levelDiff == b.distance - a.distance
  IN IF levelDiff # 0 THEN levelDiff ELSE SimilarityDiff(a.similarity, b.similarity)

\* the comparator of findBestParent, on the keys of two candidates
CompareCandidates(a, b) ==
  LET levelDiff == a.distance - b.distance
  IN IF levelDiff # 0 THEN levelDiff ELSE SimilarityDiff(a.similarity, b.similarity)

RECURSIVE ParentKeys(_, _, _)
ParentKeys(list, docNode, nodes) ==
  IF Len(list) = 0 THEN <<>>
  ELSE <<[id |-> list[1], key |-> ParentKey(nodes[list[1]], docNode)]>>
       \o ParentKeys(Tail(list), docNode, nodes)

\* nodes: the node objects by identity; allNodes: identities in Map order.
\* Returns the identity of the chosen parent, 0 for null.
\* candidates[0] after the sort, 0 when there is no candidate
BestCandidate(candidates, docNode, nodes) ==
  IF Len(candidates) = 0 THEN 0
  ELSE StableSort(ParentKeys(candidates, docNode, nodes),
                  LAMBDA a, b : CompareCandidates(a.key, b.key))[1].id

\* faulty variant: the values of the Map are read last to first
findBestParentLastFirst(doc, allNodes, nodes) ==
  BestCandidate(SelectSeq([i \in 1..Len(allNodes) |-> allNodes[Len(allNodes) + 1 - i]],
                          LAMBDA n : IsCandidate(nodes[n], nodes[doc])), nodes[doc], nodes)

findBestParent(doc, allNodes, nodes) ==
  BestCandidate(SelectSeq(allNodes, LAMBDA n : IsCandidate(nodes[n], nodes[doc])), nodes[doc], nodes)

sanitizeTitle(title) == Substring(Trim(CollapseWhitespace(title)), 0, 200)

\* the zero-width characters U+200B..U+200D and U+FEFF do not occur in the
\* model's alphabet, so only the whitespace steps change a string
cleanDocumentContent(content) == Trim(CollapseWhitespace(content))

(***************************************************************************)
(* String.prototype.localeCompare under the root collation, for the        *)
(* characters of CollationOrder: characters compare first by their place   *)
(* in that order with case ignored; strings equal up to case are ordered   *)
(* with lower case first at the first difference                           *)
(***************************************************************************)
CollationOrder == Chars(" _-,;:!?.'()[]@*/&#0123456789abcdefghijklmnopqrstuvwxyz")

CollationWeight(c) ==
  LET l == LowerChar(c)
  IN IF \E i \in 1..Len(CollationOrder) : CollationOrder[i] = l
     THEN CHOOSE i \in 1..Len(CollationOrder) : CollationOrder[i] = l
     ELSE 0

RECURSIVE ComparePrimary(_, _)
ComparePrimary(a, b) ==
  IF a = "" /\ b = "" THEN 0
  ELSE IF a = "" THEN -1
  ELSE IF b = "" THEN 1
  ELSE IF CollationWeight(Char(a, 1)) # CollationWeight(Char(b, 1))
       THEN (IF CollationWeight(Char(a, 1)) < CollationWeight(Char(b, 1)) THEN -1 ELSE 1)
  ELSE ComparePrimary(SubSeq(a, 2, Len(a)), SubSeq(b, 2, Len(b)))

RECURSIVE CompareCase(_, _)
CompareCase(a, b) ==
  IF a = "" \/ b = "" THEN 0
  ELSE IF Char(a, 1) = Char(b, 1) THEN CompareCase(SubSeq(a, 2, Len(a)), SubSeq(b, 2, Len(b)))
  ELSE IF Char(a, 1) = LowerChar(Char(a, 1)) THEN -1 ELSE 1

localeCompare(a, b) ==
  IF ComparePrimary(a, b) # 0 THEN ComparePrimary(a, b) ELSE CompareCase(a, b)

getDocumentPriority(title, url) ==
  LET lowerTitle == ToLowerCase(title)
      lowerUrl == ToLowerCase(url)
  IN IF Includes(lowerTitle, "introduction") \/ Includes(lowerTitle, "overview") THEN 1
     ELSE IF Includes(lowerTitle, "getting started") \/ Includes(lowerTitle, "quickstart") THEN 2
     ELSE IF Includes(lowerTitle, "installation") \/ Includes(lowerTitle, "setup") THEN 3
     ELSE IF Includes(lowerTitle, "tutorial") \/ Includes(lowerTitle, "guide") THEN 4
     ELSE IF Includes(lowerUrl, "getting-started") \/ Includes(lowerUrl, "quickstart") THEN 2
     ELSE IF Includes(lowerUrl, "installation") \/ Includes(lowerUrl, "setup") THEN 3
     ELSE 10

\* what the comparator of sortHierarchy reads of a node object
SortKey(doc) == [priority |-> getDocumentPriority(doc.title, doc.url), title |-> doc.title]

\* the comparator of sortHierarchy, on the keys of two node objects
CompareDocs(a, b) ==
  IF a.priority # b.priority THEN a.priority - b.priority
  ELSE localeCompare(a.title, b.title)

RECURSIVE SortKeys(_, _)
SortKeys(list, nodes) ==
  IF Len(list) = 0 THEN <<>>
  ELSE <<[id |-> list[1], key |-> SortKey(nodes[list[1]])]>> \o SortKeys(Tail(list), nodes)

RECURSIVE Ids(_)
Ids(keyed) == IF Len(keyed) = 0 THEN <<>> ELSE <<keyed[1].id>> \o Ids(Tail(keyed))

\* faulty variant: the list is sorted, the children of its members are not
sortHierarchyTopOnly(list, nodes) ==
  [list |-> Ids(StableSort(SortKeys(list, nodes), LAMBDA a, b : CompareDocs(a.key, b.key))),
   nodes |-> nodes]

\* sortHierarchy(list) on the node objects nodes: sorts list in place, then the
\* children of each of its members, recursively; returns the sorted list and
\* the node objects after the in-place sorts
RECURSIVE sortHierarchy(_, _)
RECURSIVE SortChildrenOf(_, _, _)
sortHierarchy(list, nodes) ==
  SortChildrenOf(Ids(StableSort(SortKeys(list, nodes), LAMBDA a, b : CompareDocs(a.key, b.key))),
                 1, nodes)

SortChildrenOf(list, i, nodes) ==
  IF i > Len(list) THEN [list |-> list, nodes |-> nodes]
  ELSE LET doc == list[i]
       IN IF Len(nodes[doc].children) > 0
          THEN LET r == sortHierarchy(nodes[doc].children, nodes)
               IN SortChildrenOf(list, i + 1, [r.nodes EXCEPT ![doc].children = r.list])
          ELSE SortChildrenOf(list, i + 1, nodes)

\* Map.get on a Map kept as its keys in insertion order and their values; 0 for undefined
MapGet(keys, vals, k) ==
  IF \E i \in 1..Len(keys) : keys[i] = k
  THEN vals[CHOOSE i \in 1..Len(keys) : keys[i] = k]
  ELSE 0

\* Map.set: a key already present keeps its place and takes the new value
MapSetKeys(keys, k) == IF \E i \in 1..Len(keys) : keys[i] = k THEN keys ELSE Append(keys, k)

MapSetVals(keys, vals, k, v) ==
  IF \E i \in 1..Len(keys) : keys[i] = k
  THEN [vals EXCEPT ![CHOOSE i \in 1..Len(keys) : keys[i] = k] = v]
  ELSE Append(vals, v)

\* the body of the first loop: the node of a result is created, put into the
\* Map under its URL and, at level 1, pushed to the roots
AddNode(st, result, level) ==
  [nodes |-> Append(st.nodes, [title |-> sanitizeTitle(result.title),
                               url |-> result.url,
                               content |-> cleanDocumentContent(result.content),
                               level |-> level,
                               children |-> <<>>]),
   keys |-> MapSetKeys(st.keys, result.url),
   vals |-> MapSetVals(st.keys, st.vals, result.url, Len(st.nodes) + 1),
   hierarchy |-> IF level = 1 THEN Append(st.hierarchy, Len(st.nodes) + 1) ELSE st.hierarchy]

\* first pass of buildDocumentHierarchy, from result i on
RECURSIVE FirstPass(_, _, _)
FirstPass(rs, i, st) ==
  IF i > Len(rs) THEN st
  ELSE LET result == rs[i]
       IN IF result.content = "" \/ result.title = "" THEN FirstPass(rs, i + 1, st)
          ELSE FirstPass(rs, i + 1, AddNode(st, result, determineDocumentLevel(result.url)))

\* faulty variant: the second loop forgets that level-1 nodes are already roots
SkipOnlyUnmapped(doc, nodes) == doc = 0

\* the skip test at the head of the second loop
SkipInSecondPass(doc, nodes) == doc = 0 \/ nodes[doc].level = 1

\* the node goes to the children of its parent, or to the roots when it has none
Attach(st, doc, parent) ==
  IF parent # 0
  THEN [st EXCEPT !.nodes[parent].children = Append(@, doc)]
  ELSE [st EXCEPT !.hierarchy = Append(@, doc)]

\* second pass of buildDocumentHierarchy, from result i on
RECURSIVE SecondPass(_, _, _)
SecondPass(rs, i, st) ==
  IF i > Len(rs) THEN st
  ELSE LET doc == MapGet(st.keys, st.vals, rs[i].url)
       IN IF SkipInSecondPass(doc, st.nodes) THEN SecondPass(rs, i + 1, st)
          ELSE SecondPass(rs, i + 1, Attach(st, doc, findBestParent(doc, st.vals, st.nodes)))

\* the final sort of the roots
SortRoots(st) == sortHierarchy(st.hierarchy, st.nodes)

\* returns the roots as list and the node objects as nodes
buildDocumentHierarchy(rs) ==
  SortRoots(SecondPass(rs, 1, FirstPass(rs, 1,
    [nodes |-> <<>>, keys |-> <<>>, vals |-> <<>>, hierarchy |-> <<>>])))

(***************************************************************************)
(* Section conversion                                                      *)
(***************************************************************************)
IsSentenceEnd(c) == c \in {".", "!", "?"}

RECURSIVE SkipSentenceEnds(_)
SkipSentenceEnds(s) ==
  IF s # "" /\ IsSentenceEnd(Char(s, 1)) THEN SkipSentenceEnds(SubSeq(s, 2, Len(s))) ELSE s

\* content.split(/[.!?]+/)
RECURSIVE SplitSentences(_)
SplitSentences(s) ==
  LET ends == {i \in 1..Len(s) : IsSentenceEnd(Char(s, i))}
  IN IF ends = {} THEN <<s>>
     ELSE LET i == CHOOSE k \in ends : \A j \in ends : k <= j
          IN <<SubSeq(s, 1, i - 1)>> \o SplitSentences(SkipSentenceEnds(SubSeq(s, i, Len(s))))

\* the accumulation loop of createSummaryContent, from sentence i on
RECURSIVE AccumulateSentences(_, _, _, _)
AccumulateSentences(sentences, i, summary, maxLength) ==
  IF i > Len(sentences) THEN summary
  ELSE LET potentialSummary == summary \o sentences[i] \o ". "
       IN IF Len(potentialSummary) > maxLength THEN summary
          ELSE AccumulateSentences(sentences, i + 1, potentialSummary, maxLength)

createSummaryContent(content, maxLength) ==
  IF Len(content) <= maxLength THEN content
  ELSE LET summary == AccumulateSentences(SplitSentences(content), 1, "", maxLength)
       IN IF Len(Trim(summary)) = 0
          THEN Trim(Substring(content, 0, maxLength - 3) \o "...")
          ELSE Trim(summary)

\* faulty variant: any space within the limit is taken as the cutting point
CutsAtAnySpace(lastSpaceIndex, maxLength) == lastSpaceIndex > 0

\* the test lastSpaceIndex > maxLength * 0.8, in tenths
CutsAtWordBoundary(lastSpaceIndex, maxLength) == 10 * lastSpaceIndex > 8 * maxLength

truncateContent(content, maxLength) ==
  IF Len(content) <= maxLength THEN content
  ELSE LET truncated == Substring(content, 0, maxLength - 3)
           lastSpaceIndex == LastIndexOf(truncated, " ")
       IN IF CutsAtWordBoundary(lastSpaceIndex, maxLength)
          THEN Substring(truncated, 0, lastSpaceIndex) \o "..."
          ELSE truncated \o "..."

\* an optional number is a sequence of length 0 (undefined) or 1
IsTruthyNumber(opt) == Len(opt) = 1 /\ opt[1] # 0

\* the content processing of convertDocumentToSection
ProcessContent(content, options) ==
  IF options.format = "summary"
  THEN createSummaryContent(content, IF IsTruthyNumber(options.maxSectionLength)
                                     THEN options.maxSectionLength[1] ELSE 500)
  ELSE IF IsTruthyNumber(options.maxSectionLength)
          /\ Len(content) > options.maxSectionLength[1]
       THEN truncateContent(content, options.maxSectionLength[1])
       ELSE content

\* the test that makes convertDocumentToSection return null
HasNoContent(doc) == doc.content = "" \/ Len(Trim(doc.content)) = 0

\* convertDocumentToSection: the sequence holding the section, empty for null
RECURSIVE convertDocumentToSection(_, _, _)
RECURSIVE ConvertChildren(_, _, _, _)
convertDocumentToSection(doc, nodes, options) ==
  IF HasNoContent(nodes[doc]) THEN <<>>
  ELSE <<[title |-> nodes[doc].title,
          content |-> ProcessContent(nodes[doc].content, options),
          sourceUrl |-> nodes[doc].url,
          subsections |-> ConvertChildren(nodes[doc].children, 1, nodes, options)]>>

ConvertChildren(list, i, nodes, options) ==
  IF i > Len(list) THEN <<>>
  ELSE convertDocumentToSection(list[i], nodes, options)
       \o ConvertChildren(list, i + 1, nodes, options)

convertToSections(hier, nodes, options) == ConvertChildren(hier, 1, nodes, options)

(***************************************************************************)
(* Rendering                                                               *)
(***************************************************************************)
WordChars == Chars("abcdefghijklmnopqrstuvwxyzABCDEFGHIJKLMNOPQRSTUVWXYZ0123456789_")

IsWordChar(c) == \E i \in 1..Len(WordChars) : WordChars[i] = c

\* s.replace(/[^\w\s-]/g, '')
RECURSIVE StripSpecial(_)
StripSpecial(s) ==
  IF s = "" THEN ""
  ELSE (IF IsWordChar(Char(s, 1)) \/ IsWs(Char(s, 1)) \/ Char(s, 1) = "-" THEN Char(s, 1) ELSE "")
       \o StripSpecial(SubSeq(s, 2, Len(s)))

\* s.replace(/\s+/g, '-').replace(/-+/g, '-')
RECURSIVE Hyphenate(_)
Hyphenate(s) ==
  IF s = "" THEN ""
  ELSE IF IsWs(Char(s, 1)) \/ Char(s, 1) = "-"
       THEN IF Len(s) > 1 /\ (IsWs(Char(s, 2)) \/ Char(s, 2) = "-")
            THEN Hyphenate(SubSeq(s, 2, Len(s)))
            ELSE "-" \o Hyphenate(SubSeq(s, 2, Len(s)))
       ELSE Char(s, 1) \o Hyphenate(SubSeq(s, 2, Len(s)))

RECURSIVE StripHyphens(_)
StripHyphens(s) ==
  IF s # "" /\ Char(s, 1) = "-" THEN StripHyphens(SubSeq(s, 2, Len(s)))
  ELSE IF s # "" /\ Char(s, Len(s)) = "-" THEN StripHyphens(SubSeq(s, 1, Len(s) - 1))
  ELSE s

slugify(text) == StripHyphens(Trim(Hyphenate(StripSpecial(ToLowerCase(text)))))

\* faulty variant: the timestamp is cut to whole seconds
ToISOStringSeconds(t) == "2025-01-01T00:00:00Z"

\* Date.prototype.toISOString for the instants of the model: t milliseconds
\* after 2025-01-01T00:00:00.000Z, 0 <= t < 1000
ToISOString(t) ==
  "2025-01-01T00:00:00."
    \o ToString(t \div 100) \o ToString((t \div 10) % 10) \o ToString(t % 10) \o "Z"

RECURSIVE generateTableOfContents(_, _)
generateTableOfContents(secs, level) ==
  IF Len(secs) = 0 THEN <<>>
  ELSE LET section == secs[1]
           indent == Repeat("  ", level - 1)
           bullet == IF level = 1 THEN "-" ELSE "*"
       IN <<indent \o bullet \o " [" \o section.title \o "](#" \o slugify(section.title) \o ")">>
          \o generateTableOfContents(section.subsections, level + 1)
          \o generateTableOfContents(Tail(secs), level)

RECURSIVE generateSectionContent(_, _, _)
RECURSIVE GenerateSections(_, _, _)
generateSectionContent(section, options, level) ==
  (IF options.sectionHeaders
   THEN <<Repeat("#", level) \o " " \o section.title, "">> ELSE <<>>)
  \o (IF options.includeSourceUrls /\ section.sourceUrl # ""
      THEN <<"*Source: [" \o section.sourceUrl \o "](" \o section.sourceUrl \o ")*", "">>
      ELSE <<>>)
  \o (IF section.content # "" /\ Len(Trim(section.content)) > 0
      THEN <<Trim(section.content), "">> ELSE <<>>)
  \o GenerateSections(section.subsections, options, level + 1)

GenerateSections(secs, options, level) ==
  IF Len(secs) = 0 THEN <<>>
  ELSE generateSectionContent(secs[1], options, level)
       \o GenerateSections(Tail(secs), options, level)

\* faulty variant: the top sections are rendered one level too deep
RECURSIVE GenerateTopSectionsAtThree(_, _)
GenerateTopSectionsAtThree(secs, options) ==
  IF Len(secs) = 0 THEN <<>>
  ELSE generateSectionContent(secs[1], options, 3) \o <<"">>
       \o GenerateTopSectionsAtThree(Tail(secs), options)

\* the top-level loop of generateLlmsTxtContent: each section, then a blank line
RECURSIVE GenerateTopSections(_, _)
GenerateTopSections(secs, options) ==
  IF Len(secs) = 0 THEN <<>>
  ELSE generateSectionContent(secs[1], options, 2) \o <<"">>
       \o GenerateTopSections(Tail(secs), options)

\* the lines array of generateLlmsTxtContent; now is the instant new Date() returns
GenerateLines(secs, options, baseUrl, now) ==
  <<"# Documentation", "">>
  \o (IF baseUrl # ""
      THEN <<"Source: " \o (IF ParseURL(baseUrl).ok THEN ParseURL(baseUrl).hostname ELSE baseUrl)>>
      ELSE <<>>)
  \o <<"Generated: " \o ToISOString(now),
       "Format: " \o options.format,
       "Sections: " \o ToString(Len(secs)),
       "", "---", "">>
  \o (IF Len(secs) > 1 /\ options.sectionHeaders
      THEN <<"## Table of Contents", "">> \o generateTableOfContents(secs, 1) \o <<"", "---", "">>
      ELSE <<>>)
  \o GenerateTopSections(secs, options)
  \o <<"---", "", "*This documentation was generated automatically from web content.*">>
  \o (IF options.includeSourceUrls
      THEN <<"*Source URLs are preserved for reference and verification.*">> ELSE <<>>)

generateLlmsTxtContent(secs, options, baseUrl, now) ==
  Join(GenerateLines(secs, options, baseUrl, now), "\n")

\* the number of '#' characters from position i on
RECURSIVE HashRun(_, _)
HashRun(text, i) ==
  IF i > Len(text) \/ Char(text, i) # "#" THEN 0 ELSE 1 + HashRun(text, i + 1)

\* faulty variant: the pattern asks for two to six '#'
HeaderAtFromTwo(text, i, run) ==
  /\ i = 1 \/ Char(text, i - 1) = "\n"
  /\ run \in 2..6
  /\ i + run <= Len(text)
  /\ IsWs(Char(text, i + run))

\* /^#{1,6}\s+/m matches at position i: a line starts there with one to six
\* '#' and a whitespace character follows them
HeaderAt(text, i, run) ==
  /\ i = 1 \/ Char(text, i - 1) = "\n"
  /\ run \in 1..6
  /\ i + run <= Len(text)
  /\ IsWs(Char(text, i + run))

\* (content.match(/^#{1,6}\s+/gm) || []).length
HeaderCount(text) == Cardinality({i \in 1..Len(text) : HeaderAt(text, i, HashRun(text, i))})

\* the issues of validateLlmsTxtContent, by the order of its checks
ValidationIssues(text, headerCount) ==
  (IF Len(text) < 100 THEN <<"short">> ELSE <<>>)
  \o (IF ~StartsWith(text, "# ") THEN <<"header">> ELSE <<>>)
  \o (IF Len(text) > 100000 THEN <<"long">> ELSE <<>>)
  \o (IF headerCount = 0 THEN <<"sections">> ELSE <<>>)

validateLlmsTxtContent(text) ==
  [valid |-> Len(ValidationIssues(text, HeaderCount(text))) = 0,
   issues |-> ValidationIssues(text, HeaderCount(text))]

(***************************************************************************)
(* State of one formatter object and its caller                            *)
(***************************************************************************)
VARIABLES
  results,            \* the CrawlResult[] the caller passes; undefined is ""
  request,            \* the call: method and the options argument as passed
  options,            \* the LlmsTxtOptions in force inside formatToLlmsTxt
  pc,                 \* position of the current call
  successfulResults,  \* formatToLlmsTxt local
  nodes,              \* the DocumentHierarchy objects, by creation order
  hierarchy,          \* the root array, as identities into nodes
  sections,           \* the LlmsTxtSection[] of the current call
  content,            \* the rendered text of the current call
  clock,              \* the wall clock, in ms
  dateReads,          \* the instants returned by new Date(), in call order
  bundles,            \* the GeneratedLlmsTxt values returned so far
  page,               \* the page given to the extractor, after cleanupHtml
  extracted,          \* the ExtractedContent of the page
  valid,              \* what isValidContent returned, once it has
  xpc,                \* position of the extractor's caller
  args,               \* the arguments of the scrape_documentation call
  platform,           \* the name of the platform profile detected for args.url
  crawlResults,       \* what crawlDocumentation returned to the handler
  successfulCrawls,   \* the handler's successfulResults
  processedResults,   \* the handler's processedResults
  cursor,             \* the for-of position in successfulResults.slice(0, maxPages)
  outcomes,           \* per document taken by the loop, how its try block ended
  hpc,                \* position of the scrape_documentation handler
  cancelled,          \* the client has asked to cancel the request
  detectCall,         \* the arguments of the detectPlatform call
  detected,           \* the profile detectPlatform returned, once it has
  dpc,                \* position of the detectPlatform call
  crawlCall,          \* the arguments of the crawlDocumentation call
  web,                \* what the site answers: its sitemap, its links, its reachable pages
  urlsToCrawl,        \* crawlDocumentation local
  crawlReturn,        \* the array crawlDocumentation returned, once it has
  cpc                 \* position of the crawlDocumentation call

\* the extractor's part of the state
xvars == <<page, extracted, valid, xpc>>

\* the formatter's part of the state
fvars == <<results, request, options, pc, successfulResults, nodes, hierarchy,
           sections, content, clock, dateReads, bundles>>

\* the scrape_documentation handler's part of the state
hvars == <<args, platform, crawlResults, successfulCrawls, processedResults, cursor,
           outcomes, hpc, cancelled>>

\* the state of a detectPlatform call made on its own
dvars == <<detectCall, detected, dpc>>

\* the state of a crawlDocumentation call made on its own
cvars == <<crawlCall, web, urlsToCrawl, crawlReturn, cpc>>

\* what the formatter's steps leave alone
nonFormatter == <<xvars, hvars, dvars, cvars>>

\* what the extractor's steps leave alone
nonExtractor == <<fvars, hvars, dvars, cvars>>

vars == <<results, request, options, pc, successfulResults, nodes, hierarchy,
          sections, content, clock, dateReads, bundles, page, extracted, valid, xpc,
          args, platform, crawlResults, successfulCrawls, processedResults, cursor,
          outcomes, hpc, cancelled, detectCall, detected, dpc,
          crawlCall, web, urlsToCrawl, crawlReturn, cpc>>

Some(x) == <<x>>

None == <<>>

Doc(url, title, text) == [success |-> TRUE, url |-> url, title |-> title, content |-> text]

\* the default value of the options parameter of formatToLlmsTxt
DefaultOptions ==
  [format |-> "full", includeSourceUrls |-> TRUE, sectionHeaders |-> TRUE,
   maxSectionLength |-> None]

\* formatToLlmsTxt(results) with the options argument left out
CallDefault ==
  [method |-> "formatToLlmsTxt", given |-> FALSE, format |-> None,
   includeSourceUrls |-> None, sectionHeaders |-> None, maxSectionLength |-> None]

CallFull(fmt, urls, headers, max) ==
  [method |-> "formatToLlmsTxt", given |-> TRUE, format |-> Some(fmt),
   includeSourceUrls |-> Some(urls), sectionHeaders |-> Some(headers),
   maxSectionLength |-> max]

CallSummary(urls, headers, max) ==
  [method |-> "formatToSummary", given |-> TRUE, format |-> None,
   includeSourceUrls |-> urls, sectionHeaders |-> headers, maxSectionLength |-> max]

NoPage == [elements |-> <<>>, baseHref |-> None, text |-> "", platform |-> None, url |-> ""]

NoContent == [title |-> "", content |-> "", url |-> ""]

\* the extractor has not been called
ExtractorIdle ==
  /\ page = NoPage
  /\ extracted = NoContent
  /\ valid = None
  /\ xpc = "idle"

NoArgs == [url |-> "", maxPages |-> None, outputFormat |-> None]

\* scrape_documentation has not been called
HandlerIdle ==
  /\ args = NoArgs
  /\ platform = ""
  /\ crawlResults = <<>>
  /\ successfulCrawls = <<>>
  /\ processedResults = <<>>
  /\ cursor = 0
  /\ outcomes = <<>>
  /\ hpc = "idle"
  /\ cancelled = FALSE

NoDetectCall == [url |-> "", markup |-> None]

\* detectPlatform has not been called on its own
DetectorIdle ==
  /\ detectCall = NoDetectCall
  /\ detected = None
  /\ dpc = "idle"

NoCrawlCall == [url |-> "", maxPages |-> None, maxDepth |-> None]

NoWeb == [sitemap |-> <<>>, links |-> <<>>, reachable |-> {}]

\* crawlDocumentation has not been called on its own
CrawlerIdle ==
  /\ crawlCall = NoCrawlCall
  /\ web = NoWeb
  /\ urlsToCrawl = <<>>
  /\ crawlReturn = None
  /\ cpc = "idle"

RECURSIVE SeqsUpTo(_, _)
SeqsUpTo(S, n) ==
  IF n = 0 THEN {<<>>}
  ELSE LET shorter == SeqsUpTo(S, n - 1)
       IN shorter \cup {Append(q, x) : q \in {r \in shorter : Len(r) = n - 1}, x \in S}

InitWith(Docs, Requests, maxDocs) ==
  /\ results \in SeqsUpTo(Docs, maxDocs)
  /\ request \in Requests
  /\ options = DefaultOptions
  /\ pc = "idle"
  /\ successfulResults = <<>>
  /\ nodes = <<>>
  /\ hierarchy = <<>>
  /\ sections = <<>>
  /\ content = ""
  /\ clock = 0
  /\ dateReads = <<>>
  /\ bundles = <<>>
  /\ ExtractorIdle
  /\ HandlerIdle
  /\ DetectorIdle
  /\ CrawlerIdle

(***************************************************************************)
(* Operations                                                              *)
(***************************************************************************)
\* x ?? d on an optional value
OrElse(opt, d) == IF Len(opt) = 1 THEN opt[1] ELSE d

\* formatToSummary: builds the summary options and calls formatToLlmsTxt
formatToSummary ==
  /\ pc = "idle"
  /\ request.method = "formatToSummary"
  /\ options' = [format |-> "summary",
                 includeSourceUrls |-> OrElse(request.includeSourceUrls, FALSE),
                 sectionHeaders |-> OrElse(request.sectionHeaders, FALSE),
                 maxSectionLength |-> Some(OrElse(request.maxSectionLength, 300))]
  /\ pc' = "entered"
  /\ UNCHANGED <<results, request, successfulResults, nodes, hierarchy, sections,
                 content, clock, dateReads, bundles>>
  /\ UNCHANGED nonFormatter

\* formatToLlmsTxt called directly: the options argument or its default
formatToLlmsTxt ==
  /\ pc = "idle"
  /\ request.method = "formatToLlmsTxt"
  /\ options' = IF request.given
                THEN [format |-> request.format[1],
                      includeSourceUrls |-> request.includeSourceUrls[1],
                      sectionHeaders |-> request.sectionHeaders[1],
                      maxSectionLength |-> request.maxSectionLength]
                ELSE DefaultOptions
  /\ pc' = "entered"
  /\ UNCHANGED <<results, request, successfulResults, nodes, hierarchy, sections,
                 content, clock, dateReads, bundles>>
  /\ UNCHANGED nonFormatter

\* results.filter(result => result.success && result.content)
FilterSuccessful(rs) == SelectSeq(rs, LAMBDA r : r.success /\ r.content # "")

\* formatToLlmsTxt, lines 28-34: filter, and throw when nothing is left
FilterResults ==
  /\ pc = "entered"
  /\ successfulResults' = FilterSuccessful(results)
  /\ pc' = IF Len(FilterSuccessful(results)) = 0 THEN "thrown" ELSE "filtered"
  /\ UNCHANGED <<results, request, options, nodes, hierarchy, sections, content,
                 clock, dateReads, bundles>>
  /\ UNCHANGED nonFormatter

\* faulty variant: the builder also reverses the caller's list in place
BuildHierarchyReversingInput ==
  /\ pc = "filtered"
  /\ \E built \in {buildDocumentHierarchy(successfulResults)} :
       /\ nodes' = built.nodes
       /\ hierarchy' = built.list
  /\ results' = [i \in 1..Len(results) |-> results[Len(results) + 1 - i]]
  /\ pc' = "built"
  /\ UNCHANGED <<request, options, successfulResults, sections, content,
                 clock, dateReads, bundles>>
  /\ UNCHANGED nonFormatter

BuildHierarchy ==
  /\ pc = "filtered"
  /\ \E built \in {buildDocumentHierarchy(successfulResults)} :
       /\ nodes' = built.nodes
       /\ hierarchy' = built.list
  /\ pc' = "built"
  /\ UNCHANGED <<results, request, options, successfulResults, sections, content,
                 clock, dateReads, bundles>>
  /\ UNCHANGED nonFormatter

ConvertToSections ==
  /\ pc = "built"
  /\ sections' = convertToSections(hierarchy, nodes, options)
  /\ pc' = "converted"
  /\ UNCHANGED <<results, request, options, successfulResults, nodes, hierarchy,
                 content, clock, dateReads, bundles>>
  /\ UNCHANGED nonFormatter

GenerateContent ==
  /\ pc = "converted"
  /\ content' = generateLlmsTxtContent(sections, options, successfulResults[1].url, clock)
  /\ dateReads' = Append(dateReads, clock)
  /\ pc' = "generated"
  /\ UNCHANGED <<results, request, options, successfulResults, nodes, hierarchy,
                 sections, clock, bundles>>
  /\ UNCHANGED nonFormatter

\* formatToLlmsTxt, lines 47-61: the metadata and the returned value
ReturnBundle ==
  /\ pc = "generated"
  /\ bundles' = Append(bundles,
       [content |-> content,
        sections |-> sections,
        metadata |-> [generatedAt |-> ToISOString(clock),
                      sourceCount |-> Len(successfulResults),
                      totalLength |-> Len(content),
                      format |-> options.format]])
  /\ dateReads' = Append(dateReads, clock)
  /\ pc' = "returned"
  /\ UNCHANGED <<results, request, options, successfulResults, nodes, hierarchy,
                 sections, content, clock>>
  /\ UNCHANGED nonFormatter

NextFormat ==
  \/ formatToSummary
  \/ formatToLlmsTxt
  \/ FilterResults
  \/ BuildHierarchy
  \/ ConvertToSections
  \/ GenerateContent
  \/ ReturnBundle

(***************************************************************************)
(* The formatter on batches that exercise the URL structure                *)
(***************************************************************************)
HierarchyUrls ==
  {"https://x.dev/docs/",
   "https://x.dev/docs/guide/setup",
   "https://x.dev/docs/guide",
   "https://x.dev/docs/guide/",
   "https://x.dev/docs/guide/a",
   "https://x.dev/docs/guide/a/b",
   "https://x.dev/docs/api",
   "https://x.dev/docs/api/v1",
   "https://x.dev/docs/api/v1/users",
   "not a url"}

HierarchyDocs ==
  {Doc(u, "Page", "Body text.") : u \in HierarchyUrls}
  \cup {Doc("https://x.dev/docs/guide", "", "Body text.")}

\* the direct call on every batch, the summary call on the batches of one record
Init ==
  \/ InitWith(HierarchyDocs, {CallDefault}, MaxDocs)
  \/ InitWith(HierarchyDocs, {CallSummary(None, None, None)}, 1)

Spec == Init /\ [][NextFormat]_vars

(***************************************************************************)
(* The forest, as the builder leaves it                                    *)
(***************************************************************************)
HierarchyBuilt == pc \in {"built", "converted", "generated", "returned"}

ChildSet(n) == {nodes[n].children[i] : i \in 1..Len(nodes[n].children)}

\* the nodes reachable from n by one or more child links, following at most
\* fuel links
RECURSIVE DescendantsWithin(_, _)
DescendantsWithin(n, fuel) ==
  IF fuel = 0 THEN {}
  ELSE ChildSet(n) \cup UNION {DescendantsWithin(c, fuel - 1) : c \in ChildSet(n)}

Descendants(n) == DescendantsWithin(n, Len(nodes))

CountUrl(list, url) == Cardinality({i \in 1..Len(list) : nodes[list[i]].url = url})

RECURSIVE CountInChildren(_, _)
CountInChildren(n, url) ==
  IF n = 0 THEN 0
  ELSE CountUrl(nodes[n].children, url) + CountInChildren(n - 1, url)

\* the number of places of the forest (root array and children arrays) that
\* hold a node of this URL
Occurrences(url) == CountUrl(hierarchy, url) + CountInChildren(Len(nodes), url)

DistinctUrls(rs) == \A i, j \in 1..Len(rs) : rs[i].url = rs[j].url => i = j

\* C1: in the forest the builder returns no node is its own ancestor, and the
\* level of a node is strictly lower than the level of each of its descendants
C1_LevelsIncreaseDownward ==
  HierarchyBuilt =>
    \A n \in 1..Len(nodes) :
      /\ n \notin Descendants(n)
      /\ \A d \in Descendants(n) : nodes[n].level < nodes[d].level

\* a built forest with a node, a child of it and a grandchild
C1_Witness ==
  /\ HierarchyBuilt
  /\ \E n \in 1..Len(nodes) : \E c \in ChildSet(n) : ChildSet(c) # {}

\* C2: when the URLs of the batch are pairwise distinct, each record that has a
\* title and content occurs in exactly one place of the forest, once
C2_ExactlyOnePlace ==
  (HierarchyBuilt /\ DistinctUrls(successfulResults)) =>
    \A i \in 1..Len(successfulResults) :
      (successfulResults[i].title # "" /\ successfulResults[i].content # "")
        => Occurrences(successfulResults[i].url) = 1

\* a built forest of distinct URLs with a root and a node under a parent
C2_Witness ==
  /\ HierarchyBuilt
  /\ DistinctUrls(successfulResults)
  /\ Len(successfulResults) >= 2
  /\ Len(hierarchy) >= 1
  /\ \E n \in 1..Len(nodes) : ChildSet(n) # {}

DocsUrl == "https://x.dev/docs/"

SetupUrl == "https://x.dev/docs/guide/setup"

\* the batch of scenario A: the two pages, each with a title and content
ScenarioA ==
  /\ HierarchyBuilt
  /\ Len(successfulResults) = 2
  /\ {successfulResults[1].url, successfulResults[2].url} = {DocsUrl, SetupUrl}
  /\ successfulResults[1].title # "" /\ successfulResults[2].title # ""

\* C3 as stated: one root, /docs/ at level 1, with the single child
\* /docs/guide/setup at level 3
C3_OneRootOneChild ==
  ScenarioA =>
    /\ Len(hierarchy) = 1
    /\ nodes[hierarchy[1]].url = DocsUrl
    /\ nodes[hierarchy[1]].level = 1
    /\ Len(nodes[hierarchy[1]].children) = 1
    /\ nodes[nodes[hierarchy[1]].children[1]].url = SetupUrl
    /\ nodes[nodes[hierarchy[1]].children[1]].level = 3

\* C3 amended: the "setup" segment makes /docs/guide/setup a level-1 page, so
\* the forest has two roots, both of level 1 and without children
C3_TwoRoots ==
  ScenarioA =>
    /\ Len(hierarchy) = 2
    /\ {nodes[hierarchy[1]].url, nodes[hierarchy[2]].url} = {DocsUrl, SetupUrl}
    /\ \A i \in 1..2 : nodes[hierarchy[i]].level = 1 /\ nodes[hierarchy[i]].children = <<>>

C3_Witness == ScenarioA

(***************************************************************************)
(* The formatter on batches and options that exercise the content rules    *)
(***************************************************************************)
GuideUrl == "https://x.dev/docs/guide/a"

TwoSpaces == "aaaaaaaa bbbbbbbb cccccc"

FormatDocs ==
  {Doc(DocsUrl, "Page", "Hello there friend"),
   Doc(GuideUrl, "Page", "Hello there friend"),
   Doc(GuideUrl, "Guide", TwoSpaces),
   Doc(DocsUrl, "Page", "  "),
   Doc(DocsUrl, "", "Hello"),
   Doc(GuideUrl, "Page", "One. Two three! Four five six."),
   [success |-> FALSE, url |-> GuideUrl, title |-> "", content |-> ""]}

FormatRequests ==
  {CallDefault,
   CallFull("both", FALSE, FALSE, None),
   CallSummary(None, None, None),
   CallSummary(Some(TRUE), Some(TRUE), Some(10))}
  \cup {CallFull("full", TRUE, TRUE, Some(m)) : m \in {-1, 0, 2, 3, 10, 21}}

InitFormat == InitWith(FormatDocs, FormatRequests, MaxFormatDocs)

SpecFormat == InitFormat /\ [][NextFormat]_vars

SectionsBuilt == pc \in {"converted", "generated", "returned"}

\* the nodes convertToSections keeps, in the order it visits them
RECURSIVE KeptNodes(_)
KeptNodes(list) ==
  IF Len(list) = 0 THEN <<>>
  ELSE (IF HasNoContent(nodes[list[1]]) THEN <<>>
        ELSE <<list[1]>> \o KeptNodes(nodes[list[1]].children))
       \o KeptNodes(Tail(list))

\* the sections of a section list and all their subsections, in visiting order
RECURSIVE AllSections(_)
AllSections(secs) ==
  IF Len(secs) = 0 THEN <<>>
  ELSE <<secs[1]>> \o AllSections(secs[1].subsections) \o AllSections(Tail(secs))

FullMode == options.format = "full"

\* C4: in full mode, whatever integer maxSectionLength the options give, a
\* section whose cleaned source content is longer than maxSectionLength has
\* content of at most maxSectionLength characters, ellipsis included
C4_TruncationBound ==
  (SectionsBuilt /\ FullMode /\ Len(options.maxSectionLength) = 1) =>
    LET kept == KeptNodes(hierarchy)
        secs == AllSections(sections)
    IN \A i \in 1..Len(secs) :
         Len(nodes[kept[i]].content) > options.maxSectionLength[1]
           => Len(secs[i].content) <= options.maxSectionLength[1]

\* scenario C: full mode, maxSectionLength = 10, and the given content
ScenarioCSections ==
  {i \in 1..Len(AllSections(sections)) :
     nodes[KeptNodes(hierarchy)[i]].content = "Hello there friend"}

ScenarioC ==
  /\ SectionsBuilt
  /\ FullMode
  /\ options.maxSectionLength = Some(10)
  /\ ScenarioCSections # {}

\* the text is source text cut where a word ends, followed by an ellipsis
CutAtWordBoundary(text, source) ==
  /\ EndsWith(text, "...")
  /\ LET keptLen == Len(text) - 3
     IN /\ SubSeq(source, 1, keptLen) = SubSeq(text, 1, keptLen)
        /\ keptLen < Len(source) => Char(source, keptLen + 1) = " "
        /\ keptLen > 0 => Char(source, keptLen) # " "

\* C5 as stated: at most 10 characters, ending in an ellipsis, cut at a word
\* boundary and not inside a word
C5_CutAtWordBoundary ==
  ScenarioC =>
    \A i \in ScenarioCSections :
      /\ Len(AllSections(sections)[i].content) <= 10
      /\ CutAtWordBoundary(AllSections(sections)[i].content, "Hello there friend")

\* C5 amended: the last space of the first 7 characters is at index 5, not
\* beyond 80% of the limit, so the cut is a hard one inside the word "there"
C5_HardCut ==
  ScenarioC =>
    \A i \in ScenarioCSections : AllSections(sections)[i].content = "Hello t..."

C5_Witness == ScenarioC

\* C7: the formatter never returns a bundle with zero sections
C7_NoEmptyBundle ==
  \A i \in 1..Len(bundles) : Len(bundles[i].sections) > 0

\* the section list mirrors the node list: same length, and pairwise the same
\* document with mirrored children
RECURSIVE SameShape(_, _)
SameShape(list, secs) ==
  /\ Len(list) = Len(secs)
  /\ \A i \in 1..Len(list) :
       /\ secs[i].sourceUrl = nodes[list[i]].url
       /\ secs[i].title = nodes[list[i]].title
       /\ SameShape(nodes[list[i]].children, secs[i].subsections)

\* C8: the section list has the shape of the forest: one section per node,
\* same children in the same order, nothing dropped
C8_SameShape == SectionsBuilt => SameShape(hierarchy, sections)

(***************************************************************************)
(* The formatter on long contents and on small limits                      *)
(***************************************************************************)
Long400 == Repeat("a", 400)

Long1001 == Repeat("b", 1001)

LimitDocs ==
  {Doc(DocsUrl, "Page", "Hello there friend"),
   Doc(GuideUrl, "Guide", "One. Two three! Four five six."),
   Doc(DocsUrl, "Long", Long400),
   Doc(GuideUrl, "Longer", Long1001)}

LimitRequests ==
  {CallDefault,
   CallFull("full", TRUE, TRUE, None),
   CallFull("summary", TRUE, TRUE, None),
   CallSummary(None, None, None)}
  \cup {CallSummary(None, None, Some(m)) : m \in {-1, 0, 2, 3, 21}}

InitLimits == InitWith(LimitDocs, LimitRequests, MaxFormatDocs)

SpecLimits == InitLimits /\ [][NextFormat]_vars

SummaryMode == options.format = "summary"

\* the options argument of the call names a maxSectionLength
GivesLimit == request.given /\ Len(request.maxSectionLength) = 1

\* C13: in summary mode, whatever integer maxSectionLength the options give
\* and whatever the content, a section's content has at most maxSectionLength
\* characters
C13_SummaryBound ==
  (SectionsBuilt /\ SummaryMode /\ GivesLimit) =>
    \A i \in 1..Len(AllSections(sections)) :
      Len(AllSections(sections)[i].content) <= request.maxSectionLength[1]

\* the call leaves maxSectionLength out of its options, or has no options
GivesNoLimit == ~request.given \/ Len(request.maxSectionLength) = 0

\* C14: when the options give no maxSectionLength, a section's content has at
\* most 300 characters in summary mode and at most 1000 in full mode
C14_DefaultLimits ==
  (SectionsBuilt /\ GivesNoLimit) =>
    \A i \in 1..Len(AllSections(sections)) :
      Len(AllSections(sections)[i].content) <= (IF SummaryMode THEN 300 ELSE 1000)

(***************************************************************************)
(* Repeated calls on one batch while the clock advances                    *)
(***************************************************************************)
\* time passes
Tick ==
  /\ clock < MaxClock
  /\ clock' = clock + 1
  /\ UNCHANGED <<results, request, options, pc, successfulResults, nodes, hierarchy,
                 sections, content, dateReads, bundles>>
  /\ UNCHANGED nonFormatter

\* the caller repeats its call, same batch and same options
CallAgain ==
  /\ pc = "returned"
  /\ Len(bundles) < MaxRuns
  /\ pc' = "idle"
  /\ UNCHANGED <<results, request, options, successfulResults, nodes, hierarchy,
                 sections, content, clock, dateReads, bundles>>
  /\ UNCHANGED nonFormatter

NextRuns == NextFormat \/ Tick \/ CallAgain

RunsDocs ==
  {Doc(DocsUrl, "Page", "Hello there friend"),
   Doc(GuideUrl, "Guide", TwoSpaces)}

RunsRequests == {CallDefault, CallSummary(None, None, None)}

InitRuns == InitWith(RunsDocs, RunsRequests, MaxFormatDocs)

SpecRuns == InitRuns /\ [][NextRuns]_vars

\* the instant run i put into its text: each finished run read the clock
\* twice, first for the text and then for the metadata
TextInstant(i) == dateReads[2 * i - 1]

GeneratedLabel == "\nGenerated: "

\* the text with the rest of the line cut that starts g characters into it
\* with the label "Generated: "
CutAfterLabel(text, g) ==
  IF g = -1 THEN text
  ELSE SubSeq(text, 1, g + Len(GeneratedLabel))
       \o SubSeq(text, IndexOfFrom(text, "\n", g + 1) + 1, Len(text))

\* the text without the timestamp of its line "Generated: <timestamp>"
WithoutTimestamp(text) == CutAfterLabel(text, IndexOfFrom(text, GeneratedLabel, 0))

\* the two texts are the same, except possibly for the timestamp
SameButTimestamp(a, b) == WithoutTimestamp(a) = WithoutTimestamp(b)

\* C6 as stated: two runs on the same batch with the same options return the
\* same text, whatever the time of each run
C6_SameText ==
  \A i, j \in 1..Len(bundles) : bundles[i].content = bundles[j].content

\* C6 amended: the texts of two runs are the same except for the line
\* "Generated: <timestamp>", and are identical exactly when both runs read the
\* same instant from the clock
C6_SameTextButTimestamp ==
  pc = "returned" =>
    \A i, j \in 1..Len(bundles) :
      i < j =>
        /\ IndexOfFrom(bundles[i].content, GeneratedLabel, 0) # -1
        /\ SameButTimestamp(bundles[i].content, bundles[j].content)
        /\ (bundles[i].content = bundles[j].content) <=> (TextInstant(i) = TextInstant(j))

\* two runs have returned, at different instants
C6_Witness ==
  /\ Len(bundles) = 2
  /\ TextInstant(1) # TextInstant(2)

(***************************************************************************)
(* Content extractor.  A page is the document after cleanupHtml: its       *)
(* elements in document order, each with a tag, a class, the container it  *)
(* lies in and its text(); the href of its base element; and the plain     *)
(* text that steps 3 to 6 of extractContent derive from it (they run the   *)
(* markup through cheerio and turndown).                                   *)
(***************************************************************************)
\* does the element match the simple selector
SelectorMatches(sel, el) ==
  IF sel \in {"h1", "title"} THEN el.tag = sel
  ELSE IF sel = "[class*=title]" THEN Includes(el.class, "title")
  ELSE IF sel = ".content h1" THEN el.tag = "h1" /\ el.within = "content"
  ELSE IF sel = "main h1" THEN el.tag = "h1" /\ el.within = "main"
  ELSE IF StartsWith(sel, ".") THEN el.class = SubSeq(sel, 2, Len(sel))
  ELSE FALSE

\* $(selector).first() for a selector group: the elements matching any of its
\* simple selectors, in document order; empty when there is none
SelectFirst(group, elements) ==
  LET hits == SelectSeq(elements, LAMBDA el : \E i \in 1..Len(group) : SelectorMatches(group[i], el))
  IN IF Len(hits) = 0 THEN <<>> ELSE <<hits[1]>>

\* the cascade of extractTitle after the platform's selector
CommonTitleSelectors ==
  << <<"h1">>, <<".page-title">>, <<".doc-title">>, <<".title">>, <<".article-title">>,
     <<"h1">>, <<"title">>, <<"[class*=title]">>, <<".content h1">>, <<"main h1">> >>

\* selectors.title of the platform table
PlatformTitleSelector(name) ==
  CASE name = "gitbook" -> <<"h1", ".page-title", "[data-testid=page-title]">>
    [] name = "docusaurus" -> <<"h1", ".docTitle", "header h1">>
    [] name = "vuepress" -> <<"h1", ".page-title">>
    [] name = "mintlify" -> <<"h1", ".docs-title">>
    [] OTHER -> <<"h1", "title", ".title", ".page-title">>

(***************************************************************************)
(* PlatformDetectorService                                                 *)
(***************************************************************************)
\* the keys of PLATFORM_CONFIGS, which are also those of the score table, in
\* the order in which they are written
PlatformNames == <<"gitbook", "docusaurus", "vuepress", "mintlify", "generic">>

\* the profiles, by name; of a profile the model keeps the name and the title
\* selector
PLATFORM_CONFIGS ==
  [n \in {PlatformNames[i] : i \in 1..Len(PlatformNames)} |->
     [name |-> n, title |-> PlatformTitleSelector(n)]]

\* PLATFORM_CONFIGS[name]: the profile, or nothing (undefined) for another key
ConfigOf(name) ==
  IF name \in DOMAIN PLATFORM_CONFIGS THEN Some(PLATFORM_CONFIGS[name]) ELSE None

\* characters the regular expression dot does not match
IsLineTerminator(c) == c \in {"\n", "\r"}

\* /a.*b/.test(s) for literal a and b
MatchesThenLater(s, a, b) ==
  \E i \in 1..(Len(s) - Len(a) + 1) :
    /\ SubSeq(s, i, i + Len(a) - 1) = a
    /\ \E j \in (i + Len(a))..(Len(s) - Len(b) + 1) :
         /\ SubSeq(s, j, j + Len(b) - 1) = b
         /\ \A k \in (i + Len(a))..(j - 1) : ~IsLineTerminator(Char(s, k))

\* /docs\.[^.]+\.com/.test(s)
MatchesDocsDotCom(s) ==
  \E i \in 1..(Len(s) - 4) :
    /\ SubSeq(s, i, i + 4) = "docs."
    /\ \E j \in (i + 6)..(Len(s) - 3) :
         /\ SubSeq(s, j, j + 3) = ".com"
         /\ \A k \in (i + 5)..(j - 1) : Char(s, k) # "."

\* /[^.]+\.mintlify\./.test(s)
MatchesSubdomainOfMintlify(s) ==
  \E i \in 2..(Len(s) - 9) : SubSeq(s, i, i + 9) = ".mintlify." /\ Char(s, i - 1) # "."

\* urlPatterns of detectFromUrl: whether some pattern of the platform matches
UrlPatternMatches(name, url) ==
  CASE name = "gitbook" ->
         \/ Includes(url, ".gitbook.")
         \/ Includes(url, "gitbook.com")
         \/ Includes(url, "gitbook.io")
         \/ Includes(url, "app.gitbook.com")
    [] name = "docusaurus" ->
         \/ Includes(url, "docusaurus")
         \/ MatchesThenLater(url, ".netlify.app", "docs")
         \/ MatchesThenLater(url, ".vercel.app", "docs")
         \/ MatchesThenLater(url, "github.io", "docs")
    [] name = "vuepress" ->
         \/ Includes(url, "vuepress")
         \/ Includes(url, ".vuepress")
    [] name = "mintlify" ->
         \/ Includes(url, "mintlify")
         \/ MatchesDocsDotCom(url)
         \/ MatchesSubdomainOfMintlify(url)
    [] OTHER -> FALSE

\* the first of the four platform names whose flag is set, "generic" when none:
\* the loop over the entries, which returns at the first match
FirstPlatform(flags) ==
  LET hits == {i \in 1..4 : flags[i]}
  IN IF hits = {} THEN "generic"
     ELSE PlatformNames[CHOOSE i \in hits : \A j \in hits : i <= j]

detectFromUrl(url) ==
  FirstPlatform([i \in 1..4 |-> UrlPatternMatches(PlatformNames[i], url)])

\* an element of a loaded page, with the attributes the detector reads; an
\* attribute that is absent is "", data-theme is optional
PageElement(tag, class, text) ==
  [tag |-> tag, class |-> class, name |-> "", content |-> "", testid |-> "",
   theme |-> None, src |-> "", text |-> text, head |-> FALSE]

MetaElement(name, value) ==
  [tag |-> "meta", class |-> "", name |-> name, content |-> value, testid |-> "",
   theme |-> None, src |-> "", text |-> "", head |-> TRUE]

ScriptElement(src, text) ==
  [tag |-> "script", class |-> "", name |-> "", content |-> "", testid |-> "",
   theme |-> None, src |-> src, text |-> text, head |-> FALSE]

\* $('.c').length > 0: some element has c among the tokens of its class attribute
HasClass(elements, c) ==
  \E i \in 1..Len(elements) :
    Includes(" " \o CollapseWhitespace(elements[i].class) \o " ", " " \o c \o " ")

\* $('meta[name="generator"][content*="word"]').length > 0
HasGenerator(elements, word) ==
  \E i \in 1..Len(elements) :
    /\ elements[i].tag = "meta"
    /\ elements[i].name = "generator"
    /\ Includes(elements[i].content, word)

\* $('script').text(): the texts of the script elements, one after the other
ScriptText(elements) ==
  Join([i \in 1..Len(elements) |->
          IF elements[i].tag = "script" THEN elements[i].text ELSE ""], "")

\* $('script[src*="word"]').length > 0
HasScriptFrom(elements, word) ==
  \E i \in 1..Len(elements) : elements[i].tag = "script" /\ Includes(elements[i].src, word)

\* the signatures of detectFromContent, per platform
HasSignature(name, elements) ==
  CASE name = "gitbook" ->
         \/ HasClass(elements, "gitbook-root")
         \/ \E i \in 1..Len(elements) : elements[i].testid = "sidebar"
         \/ HasClass(elements, "book-summary")
         \/ HasGenerator(elements, "gitbook")
    [] name = "docusaurus" ->
         \/ HasClass(elements, "docusaurus")
         \/ \E i \in 1..Len(elements) : Len(elements[i].theme) = 1
         \/ HasClass(elements, "navbar__brand")
         \/ HasGenerator(elements, "docusaurus")
         \/ Includes(ScriptText(elements), "docusaurus")
    [] name = "vuepress" ->
         \/ HasClass(elements, "theme-default-content")
         \/ HasClass(elements, "sidebar-links")
         \/ HasGenerator(elements, "vuepress")
         \/ Includes(ScriptText(elements), "vuepress")
    [] name = "mintlify" ->
         \/ HasClass(elements, "mintlify")
         \/ HasClass(elements, "docs-content")
         \/ HasGenerator(elements, "mintlify")
    [] OTHER -> FALSE

detectFromContent(elements) ==
  FirstPlatform([i \in 1..4 |-> HasSignature(PlatformNames[i], elements)])

\* $('*').get().map(el => $(el).attr('class')).join(' ')
ClassesOf(elements) == Join([i \in 1..Len(elements) |-> elements[i].class], " ")

\* $('body').text(): the text of the elements outside the head
BodyText(elements) ==
  Join([i \in 1..Len(elements) |-> IF elements[i].head THEN "" ELSE elements[i].text], "")

Weight(cond, w) == IF cond THEN w ELSE 0

\* faulty variant: a /docs/ path alone reaches the threshold
UrlScoreHeavyDocs(name, url) ==
  CASE name = "docusaurus" -> Weight(Includes(url, "/docs/"), 3)
    [] name = "vuepress" -> Weight(Includes(url, "/guide/"), 2)
    [] name = "gitbook" -> Weight(Includes(url, ".gitbook."), 3)
    [] name = "mintlify" -> Weight(Includes(url, "mintlify"), 3)
    [] OTHER -> 0

\* detectFromHeuristics, lines 246-249: the score a platform gets from the URL
UrlScore(name, url) ==
  CASE name = "docusaurus" -> Weight(Includes(url, "/docs/"), 2)
    [] name = "vuepress" -> Weight(Includes(url, "/guide/"), 2)
    [] name = "gitbook" -> Weight(Includes(url, ".gitbook."), 3)
    [] name = "mintlify" -> Weight(Includes(url, "mintlify"), 3)
    [] OTHER -> 0

\* detectFromHeuristics, lines 252-277: the score a platform gets from the page
ContentScore(name, elements) ==
  CASE name = "docusaurus" ->
         Weight(Includes(ClassesOf(elements), "docusaurus"), 5)
         + Weight(HasClass(elements, "navbar__brand"), 3)
         + Weight(Includes(BodyText(elements), "React") \/ HasScriptFrom(elements, "react"), 2)
    [] name = "vuepress" ->
         Weight(Includes(ClassesOf(elements), "vuepress"), 5)
         + Weight(HasClass(elements, "sidebar-links"), 3)
         + Weight(Includes(BodyText(elements), "Vue") \/ HasScriptFrom(elements, "vue"), 2)
    [] name = "gitbook" ->
         Weight(Includes(ClassesOf(elements), "gitbook"), 5)
         + Weight(HasClass(elements, "book-summary"), 3)
    [] name = "mintlify" ->
         Weight(Includes(ClassesOf(elements), "mintlify"), 5)
         + Weight(HasClass(elements, "docs-content"), 3)
    [] OTHER -> 0

\* the score table when detectFromHeuristics has gone through its signals;
\* markup is the optional htmlContent, loaded
Scores(url, markup) ==
  [n \in DOMAIN PLATFORM_CONFIGS |->
     UrlScore(n, url) + (IF Len(markup) = 1 THEN ContentScore(n, markup[1]) ELSE 0)]

\* faulty variant: of two equal scores the earlier entry is kept
RECURSIVE ReduceTopKeepsFirst(_, _, _, _)
ReduceTopKeepsFirst(scores, names, i, a) ==
  IF i > Len(names) THEN a
  ELSE ReduceTopKeepsFirst(scores, names, i + 1,
                           IF scores[a] >= scores[names[i]] THEN a ELSE names[i])

\* Object.entries(scores).reduce((a, b) => scores[a] > scores[b] ? a : b)
RECURSIVE ReduceTop(_, _, _, _)
ReduceTop(scores, names, i, a) ==
  IF i > Len(names) THEN a
  ELSE ReduceTop(scores, names, i + 1, IF scores[a] > scores[names[i]] THEN a ELSE names[i])

\* faulty variant: the best-scored platform is returned whatever its score
TopPlatformAlways(scores) == ReduceTop(scores, PlatformNames, 2, PlatformNames[1])

\* detectFromHeuristics, lines 280-285
TopPlatformIfEnough(scores) ==
  LET topPlatform == ReduceTop(scores, PlatformNames, 2, PlatformNames[1])
  IN IF scores[topPlatform] >= 3 THEN topPlatform ELSE "generic"

detectFromHeuristics(url, markup) == TopPlatformIfEnough(Scores(url, markup))

\* faulty variant: the page is looked at before the URL
DetectedNameContentFirst(urlPlatform, url, markup) ==
  IF Len(markup) = 1 /\ detectFromContent(markup[1]) # "generic"
  THEN detectFromContent(markup[1])
  ELSE IF urlPlatform # "generic" THEN urlPlatform
  ELSE detectFromHeuristics(url, markup)

\* the name detectPlatform settles on, given what the URL tier found
DetectedName(urlPlatform, url, markup) ==
  IF urlPlatform # "generic" THEN urlPlatform
  ELSE IF Len(markup) = 1 /\ detectFromContent(markup[1]) # "generic"
       THEN detectFromContent(markup[1])
       ELSE detectFromHeuristics(url, markup)

\* detectPlatform(url, htmlContent): the profile returned; markup is the
\* loaded htmlContent, absent when htmlContent is undefined or empty
detectPlatform(url, markup) == ConfigOf(DetectedName(detectFromUrl(url), url, markup))

\* s.replace(/[-_]/g, ' ')
RECURSIVE DashesToSpaces(_)
DashesToSpaces(s) ==
  IF Len(s) <= 1 THEN (IF s \in {"-", "_"} THEN " " ELSE s)
  ELSE DashesToSpaces(SubSeq(s, 1, Len(s) \div 2)) \o DashesToSpaces(SubSeq(s, Len(s) \div 2 + 1, Len(s)))

\* s.replace(/\.html?$/, '')
StripHtmlSuffix(s) ==
  IF EndsWith(s, ".html") THEN SubSeq(s, 1, Len(s) - 5)
  ELSE IF EndsWith(s, ".htm") THEN SubSeq(s, 1, Len(s) - 4)
  ELSE s

\* the characters lo..hi of s.replace(/\b\w/g, l => l.toUpperCase()): a word
\* character is put in upper case when no word character precedes it
RECURSIVE CapitalizeRange(_, _, _)
CapitalizeRange(s, lo, hi) ==
  IF lo > hi THEN ""
  ELSE IF lo = hi
       THEN IF IsWordChar(Char(s, lo)) /\ (lo = 1 \/ ~IsWordChar(Char(s, lo - 1)))
            THEN UpperChar(Char(s, lo)) ELSE Char(s, lo)
  ELSE CapitalizeRange(s, lo, (lo + hi) \div 2) \o CapitalizeRange(s, (lo + hi) \div 2 + 1, hi)

CapitalizeWords(s) == CapitalizeRange(s, 1, Len(s))

\* hostname.replace(/^www\./, '')
StripWww(host) == IF StartsWith(host, "www.") THEN SubSeq(host, 5, Len(host)) ELSE host

extractTitleFromUrl(url) ==
  LET parsedUrl == ParseURL(url)
      segments == NonEmptySegments(parsedUrl.pathname)
      lastSegment == IF Len(segments) = 0 THEN "" ELSE segments[Len(segments)]
  IN IF ~parsedUrl.ok THEN "Unknown Page"
     ELSE IF lastSegment # "" /\ lastSegment # "index" /\ lastSegment # "index.html"
          THEN CapitalizeWords(StripHtmlSuffix(DashesToSpaces(lastSegment)))
     ELSE IF Len(segments) > 1
          THEN CapitalizeWords(DashesToSpaces(segments[Len(segments) - 1]))
     ELSE StripWww(parsedUrl.hostname)

\* the test of extractTitle on the text of a selected element
AcceptableTitle(title) == title # "" /\ Len(title) > 0 /\ Len(title) < 200

\* the loop of extractTitle, from selector group i on; empty when no selector
\* gives an acceptable title
RECURSIVE TitleFromSelectors(_, _, _)
TitleFromSelectors(titleSelectors, i, elements) ==
  IF i > Len(titleSelectors) THEN <<>>
  ELSE LET element == SelectFirst(titleSelectors[i], elements)
       IN IF Len(element) > 0 /\ AcceptableTitle(Trim(element[1].text))
          THEN <<Trim(element[1].text)>>
          ELSE TitleFromSelectors(titleSelectors, i + 1, elements)

extractTitle(pg) ==
  LET platformSelectors == IF Len(pg.platform) = 1
                           THEN <<PlatformTitleSelector(pg.platform[1])>> ELSE <<>>
      found == TitleFromSelectors(platformSelectors \o CommonTitleSelectors, 1, pg.elements)
      urlTitle == extractTitleFromUrl(OrElse(pg.baseHref, ""))
  IN IF Len(found) = 1 THEN found[1]
     ELSE IF urlTitle # "" THEN urlTitle
     ELSE "Untitled Page"

\* the text from position pos (1-based) on starts with the words, in this
\* order, with any run of whitespace, or none, between two of them
RECURSIVE MatchesWordsAt(_, _, _)
MatchesWordsAt(s, pos, words) ==
  IF Len(words) = 0 THEN TRUE
  ELSE /\ pos + Len(words[1]) - 1 <= Len(s)
       /\ SubSeq(s, pos, pos + Len(words[1]) - 1) = words[1]
       /\ LET after == pos + Len(words[1])
              rest == SubSeq(s, after, Len(s))
          IN MatchesWordsAt(s, after + (Len(rest) - Len(TrimStart(rest))), Tail(words))

\* pattern.test(text) for a case-insensitive pattern of words joined by \s*
TestWords(text, words) ==
  LET lower == ToLowerCase(text)
  IN \E pos \in 1..Len(lower) : MatchesWordsAt(lower, pos, words)

\* the patterns of isValidContent
SpamIndicators ==
  << <<"error", "404">>, <<"page", "not", "found">>, <<"access", "denied">>,
     <<"forbidden">>, <<"under", "construction">> >>

\* faulty variant: only the text is searched for the indicators, not the title
HasSpamInTextOnly(c) ==
  \E i \in 1..Len(SpamIndicators) : TestWords(c.content, SpamIndicators[i])

HasSpam(c) ==
  \E i \in 1..Len(SpamIndicators) :
    TestWords(c.content, SpamIndicators[i]) \/ TestWords(c.title, SpamIndicators[i])

isValidContent(c) ==
  IF c.content = "" \/ Len(c.content) < 50 THEN FALSE
  ELSE IF HasSpam(c) THEN FALSE
  ELSE TRUE

\* extractContent: the title of the page, and the plain text derived from it
ExtractContent ==
  /\ xpc = "idle"
  /\ extracted' = [title |-> extractTitle(page), content |-> page.text, url |-> page.url]
  /\ xpc' = "extracted"
  /\ UNCHANGED <<page, valid>>
  /\ UNCHANGED nonExtractor

\* the caller asks whether the extracted content is valid
IsValidContent ==
  /\ xpc = "extracted"
  /\ valid' = Some(isValidContent(extracted))
  /\ xpc' = "validated"
  /\ UNCHANGED <<page, extracted>>
  /\ UNCHANGED nonExtractor

NextExtract == ExtractContent \/ IsValidContent

FormatterIdle ==
  /\ results = <<>>
  /\ request = CallDefault
  /\ options = DefaultOptions
  /\ pc = "idle"
  /\ successfulResults = <<>>
  /\ nodes = <<>>
  /\ hierarchy = <<>>
  /\ sections = <<>>
  /\ content = ""
  /\ clock = 0
  /\ dateReads = <<>>
  /\ bundles = <<>>

Element(tag, class, within, text) == [tag |-> tag, class |-> class, within |-> within, text |-> text]

Long199 == Repeat("T", 199)

Long200 == Repeat("T", 200)

LongSegment == Repeat("a", 250)

PageUrl == "https://x.dev/docs/getting-started"

ValidText == "This guide shows how to install and configure the tool."

TitleTexts == {"Setup Guide", "  ", Long199, Long200}

TitleElements ==
  {Element("h1", "", "", t) : t \in TitleTexts}
  \cup {Element("div", "page-title", "", t) : t \in TitleTexts}
  \cup {Element("h1", "", "content", "Inner Heading"),
        Element("title", "", "", "Docs | Setup"),
        Element("span", "subtitle", "", "A Subtitle")}

BaseHrefs ==
  {None,
   Some("https://x.dev/docs/getting-started"),
   Some("https://x.dev/docs/index.html"),
   Some("https://www.x.dev/"),
   Some("https://x.dev/.html"),
   Some("/docs/relative"),
   Some("https://x.dev/docs/" \o LongSegment)}

\* pages that exercise the title cascade
TitlePages ==
  {[elements |-> els, baseHref |-> b, text |-> ValidText, platform |-> pf, url |-> PageUrl] :
     els \in SeqsUpTo(TitleElements, MaxElements),
     b \in BaseHrefs,
     pf \in {None, Some("gitbook")}}

PlainTexts ==
  {"",
   "Page Not Found - 404",
   Repeat("y", 49),
   Repeat("y", 50),
   ValidText,
   "The server answers 404 when the requested page is missing.",
   "Error 404: the server could not locate what you asked for.",
   "You have reached a page. ERROR404. Nothing else is to be seen here.",
   "ACCESS   DENIED - you lack the permission to view this document.",
   "Sorry, the page  not found on this server; check the address again.",
   "This request is Forbidden for the account that you are signed in with.",
   "This section is under construction and will be finished very soon."}

ValidityTitles == {"Setup Guide", "Access Denied", "Error 404", "Status 404"}

\* pages that exercise the validity check
ValidityPages ==
  {[elements |-> <<Element("h1", "", "", t)>>, baseHref |-> None, text |-> x,
    platform |-> Some("generic"), url |-> PageUrl] :
     t \in ValidityTitles, x \in PlainTexts}

InitExtract ==
  /\ FormatterIdle
  /\ HandlerIdle
  /\ DetectorIdle
  /\ CrawlerIdle
  /\ page \in TitlePages \cup ValidityPages
  /\ extracted = NoContent
  /\ valid = None
  /\ xpc = "idle"

SpecExtract == InitExtract /\ [][NextExtract]_vars

Extracted == xpc \in {"extracted", "validated"}

\* C9: every title produced has at most 200 characters: the extractor's, also
\* when it comes from the URL fallback, and that of every node and section
C9_TitlesAtMost200 ==
  /\ Extracted => Len(extracted.title) <= 200
  /\ \A n \in 1..Len(nodes) : Len(nodes[n].title) <= 200
  /\ \A i \in 1..Len(AllSections(sections)) : Len(AllSections(sections)[i].title) <= 200

\* the indicators as C10 names them, in any letter case
NamedIndicators == {"404", "access denied", "under construction", "page not found", "forbidden"}

\* the indicators with the first one as the code has it
CodeIndicators == {"error 404", "error404", "access denied", "under construction",
                   "page not found", "forbidden"}

MentionsOneOf(text, phrases) == \E ph \in phrases : Includes(ToLowerCase(text), ph)

\* C10 as stated: a document with a plain text under 50 characters, or with a
\* text or title that holds one of the named indicators, is not valid
C10_InvalidWhenNamedIndicator ==
  xpc = "validated" =>
    ((Len(extracted.content) < 50
      \/ MentionsOneOf(extracted.content, NamedIndicators)
      \/ MentionsOneOf(extracted.title, NamedIndicators))
       => valid = Some(FALSE))

\* C10 amended: the 404 indicator is the word "error" followed by 404, with
\* or without whitespace between them; a bare 404 is no indicator
C10_InvalidWhenIndicator ==
  xpc = "validated" =>
    ((Len(extracted.content) < 50
      \/ MentionsOneOf(extracted.content, CodeIndicators)
      \/ MentionsOneOf(extracted.title, CodeIndicators))
       => valid = Some(FALSE))

\* a text of 50 characters or more is found invalid for an indicator in the title
C10_Witness ==
  /\ xpc = "validated"
  /\ extracted.content = ValidText
  /\ MentionsOneOf(extracted.title, CodeIndicators)
  /\ valid = Some(FALSE)

(***************************************************************************)
(* handleScrapeDocumentation: from the crawl results to the two bundles    *)
(***************************************************************************)
\* the options of the handler: its defaults overridden by args.options
ScrapeOptions == [maxPages |-> OrElse(args.maxPages, 50),
                  outputFormat |-> OrElse(args.outputFormat, "both")]

\* successfulResults.slice(0, options.maxPages), the array the loop walks
LoopBatch == SubSeq(successfulCrawls, 1, Min(Len(successfulCrawls), Max(0, ScrapeOptions.maxPages)))

\* faulty variant: the loop is left as soon as its first document is done
LoopLeftAfterFirst == cursor > 1

\* the for-of loop has taken every document of its array
LoopFinished == cursor > Len(LoopBatch)

\* the formatter is given its argument and has not started on it
CallFormatter(call) ==
  /\ results' = processedResults
  /\ request' = call
  /\ pc' = "idle"
  /\ UNCHANGED <<options, successfulResults, nodes, hierarchy, sections, content,
                 clock, dateReads, bundles>>

\* lines 375 and 406: the formatter calls still to make, given the position
WantsSummary == ScrapeOptions.outputFormat \in {"both", "llms-txt"}

WantsFull == ScrapeOptions.outputFormat \in {"both", "llms-full-txt"}

\* lines 286-324, with what crawlDocumentation returned: the platform of the
\* URL, the successful results, and the error when there is none
StartScrape ==
  /\ hpc = "called"
  /\ platform' = DetectedName(detectFromUrl(args.url), args.url, None)
  /\ successfulCrawls' = FilterSuccessful(crawlResults)
  /\ hpc' = IF Len(FilterSuccessful(crawlResults)) = 0 THEN "failed" ELSE "looping"
  /\ cursor' = 1
  /\ UNCHANGED <<args, crawlResults, processedResults, outcomes, cancelled>>
  /\ UNCHANGED <<fvars, xvars, dvars, cvars>>

\* lines 332-339: the loop takes its next document and hands its content to
\* the extractor, which loads it
BeginDocument ==
  /\ hpc = "looping"
  /\ ~LoopFinished
  /\ LoopBatch[cursor].content # ""
  /\ page' = [elements |-> LoopBatch[cursor].loaded.elements,
              baseHref |-> LoopBatch[cursor].loaded.baseHref,
              text |-> LoopBatch[cursor].loaded.text,
              platform |-> Some(platform),
              url |-> LoopBatch[cursor].url]
  /\ extracted' = NoContent
  /\ valid' = None
  /\ xpc' = "idle"
  /\ hpc' = "extracting"
  /\ UNCHANGED <<args, platform, crawlResults, successfulCrawls, processedResults,
                 cursor, outcomes, cancelled>>
  /\ UNCHANGED <<fvars, dvars, cvars>>

\* lines 344-346: the crawl result updated with what the extractor found
UpdatedResult(result, extractedContent) ==
  [result EXCEPT !.content = extractedContent.content, !.title = extractedContent.title]

\* faulty variant: a document is kept as it was crawled when it is not valid
KeepAlways(processed, result, extractedContent, isValid) ==
  Append(processed, IF isValid THEN UpdatedResult(result, extractedContent) ELSE result)

\* lines 342-348: processedResults after the validity check of a document
KeepIfValid(processed, result, extractedContent, isValid) ==
  IF isValid THEN Append(processed, UpdatedResult(result, extractedContent)) ELSE processed

\* lines 342-348: the extractor has returned and isValidContent has answered
FinishDocument ==
  /\ hpc = "extracting"
  /\ xpc = "validated"
  /\ processedResults' = KeepIfValid(processedResults, LoopBatch[cursor], extracted, valid[1])
  /\ successfulCrawls' = IF valid[1]
                         THEN [successfulCrawls EXCEPT ![cursor] = UpdatedResult(@, extracted)]
                         ELSE successfulCrawls
  /\ outcomes' = Append(outcomes, IF valid[1] THEN "valid" ELSE "invalid")
  /\ cursor' = cursor + 1
  /\ hpc' = "looping"
  /\ xpc' = "none"
  /\ UNCHANGED <<args, platform, crawlResults, cancelled, page, extracted, valid>>
  /\ UNCHANGED <<fvars, dvars, cvars>>

\* lines 350-356: extractContent throws, and the original result is kept
ExtractionThrows ==
  /\ hpc = "extracting"
  /\ xpc = "idle"
  /\ processedResults' = IF LoopBatch[cursor].content # ""
                         THEN Append(processedResults, LoopBatch[cursor])
                         ELSE processedResults
  /\ outcomes' = Append(outcomes, "threw")
  /\ cursor' = cursor + 1
  /\ hpc' = "looping"
  /\ xpc' = "none"
  /\ UNCHANGED <<args, platform, crawlResults, successfulCrawls, cancelled, page,
                 extracted, valid>>
  /\ UNCHANGED <<fvars, dvars, cvars>>

\* lines 375-382: after the loop, formatToSummary on processedResults
CallFormatToSummary ==
  /\ hpc = "looping"
  /\ LoopFinished
  /\ WantsSummary
  /\ CallFormatter(CallSummary(Some(FALSE), Some(FALSE), Some(300)))
  /\ hpc' = "summary"
  /\ UNCHANGED <<args, platform, crawlResults, successfulCrawls, processedResults,
                 cursor, outcomes, cancelled>>
  /\ UNCHANGED <<xvars, dvars, cvars>>

\* lines 406-413: formatToContext on processedResults, after the summary when
\* there is one
CallFormatToContext ==
  /\ \/ hpc = "looping" /\ LoopFinished /\ ~WantsSummary
     \/ hpc = "summary" /\ pc = "returned"
  /\ WantsFull
  /\ CallFormatter(CallFull("full", TRUE, TRUE, None))
  /\ hpc' = "full"
  /\ UNCHANGED <<args, platform, crawlResults, successfulCrawls, processedResults,
                 cursor, outcomes, cancelled>>
  /\ UNCHANGED <<xvars, dvars, cvars>>

\* lines 454 on: the report, once the formatter calls asked for have returned
FinishScrape ==
  /\ \/ hpc = "summary" /\ pc = "returned" /\ ~WantsFull
     \/ hpc = "full" /\ pc = "returned"
  /\ hpc' = "done"
  /\ UNCHANGED <<args, platform, crawlResults, successfulCrawls, processedResults,
                 cursor, outcomes, cancelled>>
  /\ UNCHANGED <<fvars, xvars, dvars, cvars>>

\* the formatter throws and the handler's catch turns it into an error reply
FormatterThrew ==
  /\ hpc \in {"summary", "full"}
  /\ pc = "thrown"
  /\ hpc' = "failed"
  /\ UNCHANGED <<args, platform, crawlResults, successfulCrawls, processedResults,
                 cursor, outcomes, cancelled>>
  /\ UNCHANGED <<fvars, xvars, dvars, cvars>>

\* the client cancels the request between two documents of the loop; the
\* signal reaches the server, and the handler is not given it
Cancel ==
  /\ hpc = "looping"
  /\ cursor > 1
  /\ ~LoopFinished
  /\ ~cancelled
  /\ cancelled' = TRUE
  /\ UNCHANGED <<args, platform, crawlResults, successfulCrawls, processedResults,
                 cursor, outcomes, hpc>>
  /\ UNCHANGED <<fvars, xvars, dvars, cvars>>

NextScrape ==
  \/ StartScrape
  \/ Cancel
  \/ BeginDocument
  \/ ExtractContent
  \/ IsValidContent
  \/ FinishDocument
  \/ ExtractionThrows
  \/ CallFormatToSummary
  \/ CallFormatToContext
  \/ FinishScrape
  \/ FormatterThrew
  \/ NextFormat

\* a crawl result, with the page the extractor gets by loading its content
Crawled(url, title, text, elements) ==
  [success |-> TRUE, url |-> url, title |-> title, content |-> text,
   loaded |-> [elements |-> elements, baseHref |-> None, text |-> text]]

FailedCrawl(url) ==
  [success |-> FALSE, url |-> url, title |-> "", content |-> "",
   loaded |-> [elements |-> <<>>, baseHref |-> None, text |-> ""]]

MissingUrl == "https://x.dev/docs/missing"

ApiUrl == "https://x.dev/docs/api"

DeniedUrl == "https://x.dev/docs/guide/denied"

CrawledDocs ==
  {Crawled(DocsUrl, "Docs", ValidText, <<Element("h1", "", "", "Docs Home")>>),
   Crawled(ApiUrl, "Api", ValidText, <<>>),
   Crawled(MissingUrl, "Missing", "Page Not Found - 404", <<>>),
   Crawled(DeniedUrl, "Denied", ValidText, <<Element("h1", "", "", "Access Denied")>>),
   FailedCrawl("https://x.dev/docs/down")}

\* the batches a crawl can return: every URL at most once
CrawledBatches ==
  {b \in SeqsUpTo(CrawledDocs, MaxCrawled) :
     \A i, j \in 1..Len(b) : b[i].url = b[j].url => i = j}

ScrapeArgs ==
  {[url |-> DocsUrl, maxPages |-> m, outputFormat |-> f] :
     m \in {None, Some(1)}, f \in {None, Some("llms-txt"), Some("llms-full-txt")}}

\* scrape_documentation is called; neither the extractor nor the formatter is
\* in a call
InitScrape ==
  /\ args \in ScrapeArgs
  /\ crawlResults \in CrawledBatches
  /\ platform = ""
  /\ successfulCrawls = <<>>
  /\ processedResults = <<>>
  /\ cursor = 0
  /\ outcomes = <<>>
  /\ hpc = "called"
  /\ cancelled = FALSE
  /\ DetectorIdle
  /\ CrawlerIdle
  /\ page = NoPage
  /\ extracted = NoContent
  /\ valid = None
  /\ xpc = "none"
  /\ results = <<>>
  /\ request = CallDefault
  /\ options = DefaultOptions
  /\ pc = "none"
  /\ successfulResults = <<>>
  /\ nodes = <<>>
  /\ hierarchy = <<>>
  /\ sections = <<>>
  /\ content = ""
  /\ clock = 0
  /\ dateReads = <<>>
  /\ bundles = <<>>

SpecScrape == InitScrape /\ [][NextScrape]_vars

\* the URLs of the documents for which isValidContent has returned false
InvalidUrls == {LoopBatch[i].url : i \in {j \in 1..Len(outcomes) : outcomes[j] = "invalid"}}

UrlsOf(rs) == {rs[i].url : i \in 1..Len(rs)}

SectionUrls(secs) == {AllSections(secs)[i].sourceUrl : i \in 1..Len(AllSections(secs))}

\* C11: a document for which isValid returned false is not among the
\* documents kept for the formatter, is not in the batch a formatter call is
\* given, and is the source of no section, neither of the call in progress nor
\* of a bundle returned, whatever happened to the other documents
C11_InvalidNeverFormatted ==
  \A u \in InvalidUrls :
    /\ u \notin UrlsOf(processedResults)
    /\ u \notin UrlsOf(results)
    /\ u \notin SectionUrls(sections)
    /\ \A b \in 1..Len(bundles) : u \notin SectionUrls(bundles[b].sections)

\* a bundle has been returned for a batch with a document that was not valid
\* and with one that was
C11_Witness ==
  /\ hpc = "done"
  /\ InvalidUrls # {}
  /\ \E b \in 1..Len(bundles) : SectionUrls(bundles[b].sections) # {}

\* the hierarchy builder has been called at least once in this run
BuilderCalled == HierarchyBuilt \/ Len(bundles) > 0

\* the documents the loop has to normalize: the successful crawl results, up
\* to maxPages of them
BatchSize == Min(Len(FilterSuccessful(crawlResults)), Max(0, OrElse(args.maxPages, 50)))

\* every document of the batch has gone through normalization, and none is
\* in it now
AllNormalized == Len(outcomes) = BatchSize /\ hpc # "extracting"

\* C16: in every run of the pipeline the hierarchy builder is first called
\* only when normalization of every document of the batch has finished, and
\* from that call on no document is normalized, replaced in the batch or added
\* to it
C16_BuildAfterNormalization ==
  /\ [](BuilderCalled => AllNormalized)
  /\ [][BuilderCalled => /\ outcomes' = outcomes
                         /\ processedResults' = processedResults
                         /\ results' = results
                         /\ xpc' = xpc]_vars

\* the builder is at work on a batch of two normalized documents, for the
\* second time
C16_Witness ==
  /\ hpc = "full"
  /\ pc = "built"
  /\ Len(bundles) = 1
  /\ Len(outcomes) = 2
  /\ Len(nodes) = 2

\* C17: once a cancellation signal has arrived between two normalization
\* tasks, the pipeline starts no further normalization task and discards the
\* partial results: the formatter is not given them, no forest is built and
\* no bundle is produced
C17_CancelStopsPipeline ==
  [][cancelled => /\ ~(hpc = "looping" /\ hpc' = "extracting")
                  /\ results' = results
                  /\ nodes' = nodes
                  /\ bundles' = bundles]_vars

(***************************************************************************)
(* detectPlatform on its own, over URLs and pages                          *)
(***************************************************************************)
DetectPlatform ==
  /\ dpc = "called"
  /\ detected' = detectPlatform(detectCall.url, detectCall.markup)
  /\ dpc' = "returned"
  /\ UNCHANGED detectCall
  /\ UNCHANGED <<fvars, xvars, hvars, cvars>>

DetectUrls ==
  {"",
   "not a url",
   "https://x.dev/",
   "https://x.dev/docs/",
   "https://x.dev/guide/intro",
   "https://x.dev/docs/guide/",
   "https://acme.gitbook.io/handbook",
   "https://acme.gitbook.io/docusaurus",
   "https://acme.github.io/project/docs/",
   "https://acme.netlify.app/docs",
   "https://acme.netlify.app/manual",
   "https://vuepress.vuejs.org/guide/",
   "https://acme.mintlify.app/",
   "https://docs.acme.com/start",
   "https://docs..com/start"}

DetectMarkups ==
  {None,
   Some(<<PageElement("p", "", "Welcome to the manual.")>>),
   Some(<<PageElement("div", "summary book-summary", "")>>),
   Some(<<PageElement("div", "my-docusaurus-theme", "")>>),
   Some(<<PageElement("div", "vuepress-page", ""), PageElement("div", "gitbook-page", "")>>),
   Some(<<PageElement("p", "", "Built with React.")>>),
   Some(<<PageElement("p", "", "Built with React and Vue.")>>),
   Some(<<PageElement("p", "", "Made with Vue."), ScriptElement("/js/vue.min.js", "")>>),
   Some(<<MetaElement("generator", "Docusaurus v2"), ScriptElement("/js/react.js", "init()")>>),
   Some(<<MetaElement("generator", "vuepress 1.9")>>),
   Some(<<ScriptElement("", "window.mintlify = {}"), PageElement("main", "docs-content", "Text")>>),
   Some(<<[PageElement("html", "", "") EXCEPT !.theme = Some("dark")]>>)}

InitDetect ==
  /\ detectCall \in {[url |-> u, markup |-> m] : u \in DetectUrls, m \in DetectMarkups}
  /\ detected = None
  /\ dpc = "called"
  /\ FormatterIdle
  /\ ExtractorIdle
  /\ HandlerIdle
  /\ CrawlerIdle

SpecDetect == InitDetect /\ [][DetectPlatform]_vars

\* no URL pattern matches, the page, if given, has no signature, and no
\* platform's score reaches the threshold
NothingSpecific(url, markup) ==
  /\ \A i \in 1..4 : ~UrlPatternMatches(PlatformNames[i], url)
  /\ Len(markup) = 1 => \A i \in 1..4 : ~HasSignature(PlatformNames[i], markup[1])
  /\ \A n \in DOMAIN PLATFORM_CONFIGS : Scores(url, markup)[n] < 3

FiveProfiles == {PLATFORM_CONFIGS[n] : n \in {"gitbook", "docusaurus", "vuepress", "mintlify", "generic"}}

SpecificNames == {PlatformNames[i] : i \in 1..4}

UrlMatches(url) == {i \in 1..4 : UrlPatternMatches(PlatformNames[i], url)}

\* the platforms whose signature the page carries; none without a page
SignaturesIn(markup) ==
  IF Len(markup) = 1 THEN {i \in 1..4 : HasSignature(PlatformNames[i], markup[1])} ELSE {}

Lowest(S) == CHOOSE i \in S : \A j \in S : i <= j

Highest(S) == CHOOSE i \in S : \A j \in S : i >= j

\* the entries of the score table that hold its highest score
TopScorers(scores) ==
  {i \in 1..Len(PlatformNames) :
     \A j \in 1..Len(PlatformNames) : scores[PlatformNames[i]] >= scores[PlatformNames[j]]}

\* what the heuristic tier answers for a score table: the last, in the order
\* of the table, of the platforms with the highest score when that score is 3
\* or more, generic otherwise
HeuristicAnswer(scores) ==
  IF scores[PlatformNames[Highest(TopScorers(scores))]] >= 3
  THEN PlatformNames[Highest(TopScorers(scores))]
  ELSE "generic"

\* only the heuristic tier is left to decide
HeuristicsDecide == UrlMatches(detectCall.url) = {} /\ SignaturesIn(detectCall.markup) = {}

\* C22: when a URL pattern matches, the first matching platform of the table
\* is returned whatever the page says; without one, a page that is given and
\* carries a signature decides; the heuristic tier decides only when both
\* found nothing
C22_TiersInOrder ==
  dpc = "returned" =>
    /\ Len(detected) = 1
    /\ UrlMatches(detectCall.url) # {}
         => detected[1].name = PlatformNames[Lowest(UrlMatches(detectCall.url))]
    /\ (UrlMatches(detectCall.url) = {} /\ SignaturesIn(detectCall.markup) # {})
         => detected[1].name = PlatformNames[Lowest(SignaturesIn(detectCall.markup))]
    /\ HeuristicsDecide
         => detected[1].name = detectFromHeuristics(detectCall.url, detectCall.markup)

\* the URL matches the patterns of two platforms, the page carries the
\* signature of a third, and the first of the two is returned
C22_Witness ==
  /\ dpc = "returned"
  /\ Cardinality(UrlMatches(detectCall.url)) = 2
  /\ SignaturesIn(detectCall.markup) # {}
  /\ SignaturesIn(detectCall.markup) \cap UrlMatches(detectCall.url) = {}
  /\ detected = Some(PLATFORM_CONFIGS[PlatformNames[Lowest(UrlMatches(detectCall.url))]])

\* C23: when the heuristic tier decides, a specific platform is returned only
\* with the highest score and a score of 3 or more, generic otherwise, and of
\* several platforms with the highest score the order of the table picks one
C23_ThresholdAndOrder ==
  (dpc = "returned" /\ HeuristicsDecide) =>
    detected = Some(PLATFORM_CONFIGS[HeuristicAnswer(Scores(detectCall.url, detectCall.markup))])

\* two platforms share the highest score, 5, and the heuristic tier returned
\* one of them
C23_Witness ==
  /\ dpc = "returned"
  /\ HeuristicsDecide
  /\ Cardinality(TopScorers(Scores(detectCall.url, detectCall.markup))) = 2
  /\ Scores(detectCall.url, detectCall.markup)[detected[1].name] = 5

\* C29: for a call without a page, the profile returned is a specific one
\* exactly when a URL pattern matches
C29_NoPageNoHeuristicWinner ==
  (dpc = "returned" /\ detectCall.markup = None) =>
    (detected[1].name \in SpecificNames <=> UrlMatches(detectCall.url) # {})

\* a call without a page whose URL gives a platform a score but matches no
\* pattern: the generic profile was returned
C29_Witness ==
  /\ dpc = "returned"
  /\ detectCall.markup = None
  /\ UrlMatches(detectCall.url) = {}
  /\ Scores(detectCall.url, None)["docusaurus"] = 2
  /\ Scores(detectCall.url, None)["vuepress"] = 2
  /\ detected = Some(PLATFORM_CONFIGS["generic"])


(***************************************************************************)
(* CrawlerService.crawlDocumentation                                       *)
(***************************************************************************)
\* Array.prototype.slice(0, end) for an integer end
SliceTo(seq, end) ==
  SubSeq(seq, 1, IF end < 0 THEN Max(Len(seq) + end, 0) ELSE Min(end, Len(seq)))

\* the elements of a sequence in the order in which a Set first receives them
RECURSIVE InsertionOrder(_, _)
InsertionOrder(seq, seen) ==
  IF Len(seq) = 0 THEN seen
  ELSE InsertionOrder(Tail(seq),
         IF \E i \in 1..Len(seen) : seen[i] = seq[1] THEN seen ELSE Append(seen, seq[1]))

\* the filter of discoverDocumentationUrls: URLs that parse, on the base's host
OnHostOf(baseUrl, url) ==
  ParseURL(url).ok /\ ParseURL(url).hostname = ParseURL(baseUrl).hostname

\* discoverFromNavigation: the base URL, then the links found from it
NavigationUrls(baseUrl, links) == InsertionOrder(links, <<baseUrl>>)

\* what discoverDocumentationUrls returns when new URL(baseUrl) does not throw
DiscoveredUrls(baseUrl, sitemapUrls, navigationUrls, maxPages) ==
  SliceTo(SelectSeq(InsertionOrder(sitemapUrls \o navigationUrls, <<>>),
                    LAMBDA u : OnHostOf(baseUrl, u)),
          maxPages)

\* the CrawlResult crawlMultiplePages makes of one target
PageResult(url, reachable) ==
  IF url \in reachable
  THEN [success |-> TRUE, url |-> url, title |-> "Page", content |-> "Body text."]
  ELSE [success |-> FALSE, url |-> url, title |-> "", content |-> ""]

\* crawlMultiplePages: one result per target, in the order of the targets
PageResults(urls, reachable) == [i \in 1..Len(urls) |-> PageResult(urls[i], reachable)]

CrawlMaxPages == OrElse(crawlCall.maxPages, 50)

CrawlMaxDepth == OrElse(crawlCall.maxDepth, 3)

\* lines 134-152: the options, and the choice of the single page mode
CrawlDocumentation ==
  /\ cpc = "called"
  /\ cpc' = IF CrawlMaxDepth <= 1 THEN "single" ELSE "discovering"
  /\ UNCHANGED <<crawlCall, web, urlsToCrawl, crawlReturn>>
  /\ UNCHANGED <<fvars, xvars, hvars, dvars>>

\* lines 146-151 and 161-166: the base URL alone is crawled, in the single
\* page mode or as the fallback, and a failure is thrown
CrawlBaseUrl ==
  /\ cpc \in {"single", "fallback"}
  /\ IF crawlCall.url \in web.reachable
     THEN /\ crawlReturn' = Some(<<PageResult(crawlCall.url, web.reachable)>>)
          /\ cpc' = "returned"
     ELSE /\ crawlReturn' = None
          /\ cpc' = "thrown"
  /\ UNCHANGED <<crawlCall, web, urlsToCrawl>>
  /\ UNCHANGED <<fvars, xvars, hvars, dvars>>

\* lines 156-167 with discoverDocumentationUrls: new URL(baseUrl) may throw;
\* otherwise the URLs found, and the fallback when there is none
DiscoverUrls ==
  /\ cpc = "discovering"
  /\ IF ~ParseURL(crawlCall.url).ok
     THEN /\ urlsToCrawl' = <<>>
          /\ cpc' = "thrown"
     ELSE \E found \in {DiscoveredUrls(crawlCall.url, web.sitemap,
                                       NavigationUrls(crawlCall.url, web.links),
                                       CrawlMaxPages)} :
            /\ urlsToCrawl' = found
            /\ cpc' = IF Len(found) = 0 THEN "fallback" ELSE "crawling"
  /\ UNCHANGED <<crawlCall, web, crawlReturn>>
  /\ UNCHANGED <<fvars, xvars, hvars, dvars>>

\* lines 172-177: crawlMultiplePages on urlsToCrawl.slice(0, maxPages)
CrawlMultiplePages ==
  /\ cpc = "crawling"
  /\ crawlReturn' = Some(PageResults(SliceTo(urlsToCrawl, CrawlMaxPages), web.reachable))
  /\ cpc' = "returned"
  /\ UNCHANGED <<crawlCall, web, urlsToCrawl>>
  /\ UNCHANGED <<fvars, xvars, hvars, dvars>>

NextCrawl ==
  \/ CrawlDocumentation
  \/ CrawlBaseUrl
  \/ DiscoverUrls
  \/ CrawlMultiplePages

SiteUrls == {"https://x.dev/docs/a", "https://x.dev/docs/b", "https://other.dev/docs/a"}

CrawlCalls ==
  {[url |-> u, maxPages |-> m, maxDepth |-> d] :
     u \in {DocsUrl, "not a url"},
     m \in {None, Some(0), Some(1), Some(2)},
     d \in {None, Some(0), Some(1), Some(2)}}

Webs ==
  {[sitemap |-> sm, links |-> ls, reachable |-> r] :
     sm \in SeqsUpTo(SiteUrls, MaxLinks),
     ls \in SeqsUpTo(SiteUrls, MaxLinks),
     r \in {{}, {DocsUrl}, {"https://x.dev/docs/a"}, SiteUrls \cup {DocsUrl}}}

InitCrawl ==
  /\ crawlCall \in CrawlCalls
  /\ web \in Webs
  /\ urlsToCrawl = <<>>
  /\ crawlReturn = None
  /\ cpc = "called"
  /\ FormatterIdle
  /\ ExtractorIdle
  /\ HandlerIdle
  /\ DetectorIdle

SpecCrawl == InitCrawl /\ [][NextCrawl]_vars

\* C15: crawlDocumentation never returns more than maxPages results, for
\* every maxPages >= 0, every maxDepth and every outcome of the discovery, the
\* single page mode and the fallback to the base URL included
C15_AtMostMaxPages ==
  (cpc = "returned" /\ CrawlMaxPages >= 0) => Len(crawlReturn[1]) <= CrawlMaxPages

(***************************************************************************)
(* The builder on single documents that exercise the level rules           *)
(***************************************************************************)
LevelUrls ==
  {"not a url",
   "https://x.dev/",
   "https://x.dev/docs",
   "https://x.dev/docs/index.html",
   "https://x.dev/docs/guide/index.html",
   "https://x.dev/docs/guide",
   "https://x.dev/docs//guide",
   "https://x.dev/docs/guide?next=/a/b/c",
   "https://x.dev/docs/guide/a/b",
   "https://x.dev/docs/Overview/a",
   "https://x.dev/docs/home.html/a",
   "https://x.dev/docs/guide/setup",
   "https://x.dev/docs/a/quickstart/b",
   "https://x.dev/docs/api",
   "https://x.dev/docs/api/v1/users",
   "https://x.dev/docs/api/v1/users/list",
   "https://x.dev/docs/a/b/Methods/c/d",
   "https://x.dev/docs/apis/v1/x/y",
   "https://x.dev/docs/reference/index/x",
   "https://x.dev/docs/reference/installation"}

InitLevels ==
  InitWith({Doc(u, "Page", "Body text.") : u \in LevelUrls},
           {CallDefault, CallSummary(None, None, None)}, 1)

SpecLevels == InitLevels /\ [][NextFormat]_vars

LandingWords == {"index", "home", "introduction", "overview"}

StartWords == {"getting-started", "quickstart", "setup", "installation"}

ApiWords == {"api", "reference", "methods"}

\* the level the rules give, in their order of precedence, to an URL whose
\* path has the segments segs, letter case of a segment ignored
StatedLevel(urlObj, segs) ==
  IF ~urlObj.ok THEN 2
  ELSE IF Len(segs) <= 1 \/ SomeSegmentIn(segs, LandingWords \cup StartWords) THEN 1
  ELSE IF SomeSegmentIn(segs, ApiWords) THEN Min(Len(segs), 4)
  ELSE Min(Len(segs), 3)

\* every node has the level the rules give when the segments are those in segs
LevelsAsStated(Segments(_)) ==
  \A n \in 1..Len(nodes) :
    /\ nodes[n].level = StatedLevel(ParseURL(nodes[n].url),
                                    Segments(ParseURL(nodes[n].url).pathname))
    /\ nodes[n].level \in 1..4

\* C18 as stated: every node's level is the one the rules give to the
\* segments of its URL's path (level 1 for at most one segment or a landing or
\* getting-started segment, min(count, 4) with an api segment, min(count, 3)
\* otherwise, 2 for a malformed URL), and lies in 1..4
C18_LevelByPathSegments == LevelsAsStated(NonEmptySegments)

\* C18 amended: the same rules, on the segments of the path other than
\* index.html
C18_LevelBySegmentsButIndexHtml ==
  LevelsAsStated(LAMBDA pathname : SelectSeq(NonEmptySegments(pathname),
                                             LAMBDA seg : seg # "index.html"))

\* the forest holds a page whose path ends in index.html after two segments,
\* at level 2
C18_Witness ==
  /\ HierarchyBuilt
  /\ \E n \in 1..Len(nodes) :
       nodes[n].url = "https://x.dev/docs/guide/index.html" /\ nodes[n].level = 2

(***************************************************************************)
(* The builder on batches that exercise the choice of a parent             *)
(***************************************************************************)
ParentUrls ==
  {"https://x.dev/docs/",
   "https://x.dev/docs/guide",
   "https://x.dev/docs/guide/",
   "https://x.dev/docs/guide/a",
   "https://x.dev/docs/guide/a/b",
   "https://x.dev/docs/guide-x/a",
   "https://x.dev/docs/api/v1/users",
   "not a url"}

ParentDocs ==
  {Doc(u, "Page", "Body text.") : u \in ParentUrls}
  \cup {Doc("https://x.dev/docs/guide", "Other", "Body text.")}

InitParents ==
  \/ InitWith(ParentDocs, {CallDefault}, MaxDocs)
  \/ InitWith(ParentDocs, {CallSummary(None, None, None)}, 1)

SpecParents == InitParents /\ [][NextFormat]_vars

\* the nodes the URL map holds: of the nodes of one URL, the one made last
LiveNodes == {n \in 1..Len(nodes) : \A m \in (n + 1)..Len(nodes) : nodes[m].url # nodes[n].url}

Roots == {hierarchy[i] : i \in 1..Len(hierarchy)}

ParentsOf(d) == {n \in 1..Len(nodes) : d \in ChildSet(n)}

\* the candidates of d: another document of a lower level whose path, as
\* Path gives it, is a prefix of the path of d character by character
CandidatesOf(d, Path(_)) ==
  {c \in LiveNodes :
     /\ nodes[c].url # nodes[d].url
     /\ nodes[c].level < nodes[d].level
     /\ ParseURL(nodes[c].url).ok /\ ParseURL(nodes[d].url).ok
     /\ StartsWith(Path(ParseURL(nodes[d].url).pathname), Path(ParseURL(nodes[c].url).pathname))}

LevelDistance(c, d) == Abs(nodes[c].level - (nodes[d].level - 1))

SharedSegments(c, d) ==
  CommonPrefixLen(NonEmptySegments(ParseURL(nodes[c].url).pathname),
                  NonEmptySegments(ParseURL(nodes[d].url).pathname))

LargerCount(c, d) ==
  Max(Len(NonEmptySegments(ParseURL(nodes[c].url).pathname)),
      Len(NonEmptySegments(ParseURL(nodes[d].url).pathname)))

\* shared / larger of p is at least that of c
AtLeastAsSimilar(p, c, d) ==
  SharedSegments(p, d) * LargerCount(c, d) >= SharedSegments(c, d) * LargerCount(p, d)

\* the candidates no other candidate beats: nearest to level(d) - 1 and, among
\* those, of the highest similarity
BestOf(cands, d) ==
  {p \in cands :
     \A c \in cands :
       \/ LevelDistance(p, d) < LevelDistance(c, d)
       \/ LevelDistance(p, d) = LevelDistance(c, d) /\ AtLeastAsSimilar(p, c, d)}

PlacedByRule(d, cands) ==
  IF nodes[d].level = 1 \/ cands = {}
  THEN d \in Roots /\ ParentsOf(d) = {}
  ELSE d \notin Roots /\ ParentsOf(d) # {} /\ ParentsOf(d) \subseteq BestOf(cands, d)

\* C19 as stated: every document that is not of level 1 is attached under a
\* candidate (another document, of lower level, whose path is a literal prefix
\* of its path) nearest to its level minus one and, among those, of the
\* highest similarity; without a candidate it is a root; level-1 documents
\* are roots
C19_ParentByLiteralPrefix ==
  HierarchyBuilt =>
    \A d \in LiveNodes : PlacedByRule(d, CandidatesOf(d, LAMBDA path : path))

\* C19 amended: the same, the paths compared after one trailing slash is
\* taken off each
C19_ParentByPrefixWithoutSlash ==
  HierarchyBuilt =>
    \A d \in LiveNodes : PlacedByRule(d, CandidatesOf(d, StripTrailingSlash))

\* a forest where a document with candidates at two level distances hangs
\* under one of them
C19_Witness ==
  /\ HierarchyBuilt
  /\ \E d \in LiveNodes :
       /\ nodes[d].level # 1
       /\ \E c1, c2 \in CandidatesOf(d, StripTrailingSlash) :
            LevelDistance(c1, d) # LevelDistance(c2, d)
       /\ ParentsOf(d) # {}

\* the place of a document in the batch: where its URL occurs first among
\* the records that have a title and content
PlaceInBatch(url) ==
  CHOOSE i \in 1..Len(successfulResults) :
    /\ successfulResults[i].url = url
    /\ successfulResults[i].title # "" /\ successfulResults[i].content # ""
    /\ \A j \in 1..(i - 1) : successfulResults[j].url # url

TiedWith(p, c, d) ==
  /\ c # p
  /\ LevelDistance(c, d) = LevelDistance(p, d)
  /\ AtLeastAsSimilar(c, p, d) /\ AtLeastAsSimilar(p, c, d)

\* C20: a parent chosen among candidates that tie on level distance and on
\* similarity comes before each of the others in the batch
C20_TieGoesToFirstInBatch ==
  HierarchyBuilt =>
    \A d \in LiveNodes : \A p \in ParentsOf(d) :
      \A c \in CandidatesOf(d, StripTrailingSlash) :
        TiedWith(p, c, d) => PlaceInBatch(nodes[p].url) < PlaceInBatch(nodes[c].url)

\* the links of a forest, by URL
EdgesOf(ns) ==
  UNION {{<<ns[n].url, ns[ns[n].children[i]].url>> : i \in 1..Len(ns[n].children)} :
           n \in 1..Len(ns)}

LastToFirst(rs) == [i \in 1..Len(rs) |-> rs[Len(rs) + 1 - i]]

\* a forest where a document hangs under the first of two tied candidates,
\* while the same batch given last to first yields other links
C20_Witness ==
  /\ HierarchyBuilt
  /\ \E d \in LiveNodes : \E p \in ParentsOf(d) :
       \E c \in CandidatesOf(d, StripTrailingSlash) :
         TiedWith(p, c, d) /\ PlaceInBatch(nodes[p].url) < PlaceInBatch(nodes[c].url)
  /\ EdgesOf(buildDocumentHierarchy(LastToFirst(successfulResults)).nodes) # EdgesOf(nodes)

(***************************************************************************)
(* The builder on batches that exercise the order of siblings              *)
(***************************************************************************)
SortDocs ==
  {Doc("https://x.dev/docs", "Zebra", "Body text."),
   Doc("https://x.dev/a", "Tutorial", "Body text."),
   Doc("https://x.dev/docs/b", "apple", "Body text."),
   Doc("https://x.dev/docs/d", "User Guide", "Body text."),
   Doc("https://x.dev/docs/e", "Overview", "Body text."),
   Doc("https://x.dev/docs/f", "Getting Started", "Body text."),
   Doc("https://x.dev/docs/setup-notes", "Alpha", "Body text."),
   Doc("https://x.dev/docs/b/c", "Cherry", "Body text."),
   Doc("https://x.dev/docs/b/d", "berry", "Body text.")}

InitSort ==
  \/ InitWith(SortDocs, {CallDefault}, MaxDocs)
  \/ InitWith(SortDocs, {CallSummary(None, None, None)}, 1)

SpecSort == InitSort /\ [][NextFormat]_vars

Alphabet == Chars(" abcdefghijklmnopqrstuvwxyz")

LetterRank(c) == CHOOSE i \in 1..Len(Alphabet) : Alphabet[i] = c

\* a comes no later than b in the dictionary, letter case ignored
RECURSIVE Alphabetical(_, _)
Alphabetical(a, b) ==
  IF a = "" THEN TRUE
  ELSE IF b = "" THEN FALSE
  ELSE IF LetterRank(Char(a, 1)) # LetterRank(Char(b, 1))
       THEN LetterRank(Char(a, 1)) < LetterRank(Char(b, 1))
  ELSE Alphabetical(SubSeq(a, 2, Len(a)), SubSeq(b, 2, Len(b)))

\* the score of a document, by the keywords of its title and then of its URL
PriorityScore(n) ==
  LET t == ToLowerCase(nodes[n].title)
      u == ToLowerCase(nodes[n].url)
  IN IF Includes(t, "introduction") \/ Includes(t, "overview") THEN 1
     ELSE IF Includes(t, "getting started") \/ Includes(t, "quickstart") THEN 2
     ELSE IF Includes(t, "installation") \/ Includes(t, "setup") THEN 3
     ELSE IF Includes(t, "tutorial") \/ Includes(t, "guide") THEN 4
     ELSE IF Includes(u, "getting-started") \/ Includes(u, "quickstart") THEN 2
     ELSE IF Includes(u, "installation") \/ Includes(u, "setup") THEN 3
     ELSE 10

InSiblingOrder(a, b) ==
  \/ PriorityScore(a) < PriorityScore(b)
  \/ /\ PriorityScore(a) = PriorityScore(b)
     /\ Alphabetical(ToLowerCase(nodes[a].title), ToLowerCase(nodes[b].title))

SortedSiblings(list) ==
  \A i, j \in 1..Len(list) : i < j => InSiblingOrder(list[i], list[j])

CascadeFindsNothing ==
  TitleFromSelectors((IF Len(page.platform) = 1
                      THEN <<PlatformTitleSelector(page.platform[1])>> ELSE <<>>)
                     \o CommonTitleSelectors, 1, page.elements) = <<>>

\* the segments of the path that can name a page: index and index.html cannot
MeaningfulSegments(url) ==
  SelectSeq(NonEmptySegments(ParseURL(url).pathname),
            LAMBDA seg : seg \notin {"index", "index.html"})

\* the last meaningful segment of the URL's path in title case, "Untitled
\* Page" when the URL has none
TitleFromPageUrl(url) ==
  IF ~ParseURL(url).ok \/ MeaningfulSegments(url) = <<>> THEN "Untitled Page"
  ELSE CapitalizeWords(StripHtmlSuffix(DashesToSpaces(
         MeaningfulSegments(url)[Len(MeaningfulSegments(url))])))

\* C24: when the cascade finds no title, the extracted title is the last
\* meaningful path segment of the page's URL in title case, and "Untitled
\* Page" when there is no such segment
C24_FallbackTitleFromPageUrl ==
  (Extracted /\ CascadeFindsNothing) => extracted.title = TitleFromPageUrl(page.url)

(***************************************************************************)
(* Batches that give a URL twice                                           *)
(***************************************************************************)
NodesOfUrl(url) == {n \in 1..Len(nodes) : nodes[n].url = url}

\* the nodes that the forest holds: those reachable from the root list
InForest == Roots \cup UNION {Descendants(r) : r \in Roots}

\* C25: whatever the batch, also when two of its records have the same URL,
\* the forest holds at most one node of a URL, in exactly one sibling list and
\* there once
C25_OneNodePerUrl ==
  HierarchyBuilt =>
    \A i \in 1..Len(successfulResults) :
      (successfulResults[i].title # "" /\ successfulResults[i].content # "") =>
        /\ Cardinality(NodesOfUrl(successfulResults[i].url) \cap InForest) <= 1
        /\ Occurrences(successfulResults[i].url) = 1

(***************************************************************************)
(* The formatter on batches that nest as deep as the levels allow          *)
(***************************************************************************)
DeepDocs ==
  {Doc("https://x.dev/docs/", "Docs", "Body text."),
   Doc("https://x.dev/docs/api", "Api", "Body text."),
   Doc("https://x.dev/docs/api/v1", "Version one", "Body text."),
   Doc("https://x.dev/docs/api/v1/users", "Users", "Body text."),
   Doc("https://x.dev/docs/api/v1/users/list", "  ", "Body text.")}

InitDeep ==
  InitWith(DeepDocs, {CallDefault, CallSummary(None, Some(TRUE), None)}, MaxDocs + 1)

SpecDeep == InitDeep /\ [][NextFormat]_vars

\* the number of nodes on the longest path from n down to a leaf
RECURSIVE HeightWithin(_, _)
HeightWithin(n, fuel) ==
  IF fuel = 0 THEN 0
  ELSE 1 + Max(0, Highest({0} \cup {HeightWithin(c, fuel - 1) : c \in ChildSet(n)}))

\* the heading lines of the sections, the sections of secs drawn at level
RECURSIVE HeadingsOf(_, _)
HeadingsOf(secs, level) ==
  IF Len(secs) = 0 THEN {}
  ELSE {[hashes |-> level, line |-> Repeat("#", level) \o " " \o secs[1].title]}
       \cup HeadingsOf(secs[1].subsections, level + 1)
       \cup HeadingsOf(Tail(secs), level)

Rendered == pc \in {"generated", "returned"}

IssuesOf(bundle) == validateLlmsTxtContent(bundle.content).issues

\* C27: every text returned starts with a top-level header, has at least one
\* header line and at least 100 characters; the validator has no issue for it
\* but the one for a text over 100,000 characters, and calls it valid exactly
\* when it has no issue
C27_BundlesPassValidation ==
  \A b \in 1..Len(bundles) :
    /\ StartsWith(bundles[b].content, "# ")
    /\ HeaderCount(bundles[b].content) >= 1
    /\ Len(bundles[b].content) >= 100
    /\ \A i \in 1..Len(IssuesOf(bundles[b])) : IssuesOf(bundles[b])[i] = "long"
    /\ validateLlmsTxtContent(bundles[b].content).valid <=> IssuesOf(bundles[b]) = <<>>

\* a text returned without section headers and without any section: its only
\* header line is the first one, and it is valid
C27_Witness ==
  /\ pc = "returned"
  /\ ~options.sectionHeaders
  /\ sections = <<>>
  /\ HeaderCount(bundles[Len(bundles)].content) = 1
  /\ validateLlmsTxtContent(bundles[Len(bundles)].content).valid

(***************************************************************************)
(* The handler's two formatter calls on one list                           *)
(***************************************************************************)
\* the sections a call with the options in force gives for the list rs when
\* nothing has touched it
SectionsFor(built) == convertToSections(built.list, built.nodes, options)

FullAfterSummary == hpc = "full" /\ pc = "returned" /\ Len(bundles) = 2

\* C28: while a formatter call runs, the list it was given and its records
\* stay as they were; and the sections of the full call that follows a summary
\* call are those of a full call on the list as the handler built it
C28_InputUnchanged ==
  /\ [][(pc \notin {"none", "returned", "thrown"} /\ hpc \in {"summary", "full"})
          => results' = results /\ processedResults' = processedResults]_vars
  /\ [](FullAfterSummary =>
          /\ results = processedResults
          /\ bundles[2].sections
               = SectionsFor(buildDocumentHierarchy(FilterSuccessful(processedResults))))

\* the full call has returned after the summary call, on a list of two
\* different records
C28_Witness ==
  /\ FullAfterSummary
  /\ Len(processedResults) = 2
  /\ processedResults[1] # processedResults[2]
  /\ bundles[1].metadata.format = "summary"
  /\ bundles[2].metadata.format = "full"

(***************************************************************************)
(* The source count of a bundle                                            *)
(***************************************************************************)
\* C30: the sourceCount of every bundle returned is the number of its
\* sections, subsections at every depth included
C30_SourceCountIsSectionCount ==
  \A b \in 1..Len(bundles) :
    bundles[b].metadata.sourceCount = Len(AllSections(bundles[b].sections))

====
